---- MODULE Spec2Model ----
(***************************************************************************)
(* The DOM-tree serializer (snapshot / serializeNodeWithId and the         *)
(* functions they call) as a state machine.  One action is one task of    *)
(* the single-threaded event loop: a call of snapshot, a call of          *)
(* serializeNodeWithId made for a newly observed node, cleanupSnapshot, a  *)
(* timer that expires, or a load event that is dispatched.                 *)
(*                                                                         *)
(* Strings that the code inspects character by character (text content)    *)
(* are sequences of one-character strings; attribute values, tag names     *)
(* and class names are atomic strings.                                     *)
(***************************************************************************)
EXTENDS Integers, Sequences, FiniteSets, TLC

VARIABLES
    DOM,        \* the documents: per node its properties (none changes while recording)
    _id,        \* the module-level id counter (let _id = 1)
    mirrors,    \* the Mirror instances created so far, in creation order
    opts,       \* the options the recorder passes to snapshot / serializeNodeWithId
    frameState, \* per same-origin iframe: "loading", "blank" or "complete"
    sheetLoaded,\* per link element: whether link.sheet is non-null
    regs,       \* what onceIframeLoaded / onceStylesheetLoaded left behind: timers and load listeners
    trace,      \* what the last task did, in order
    result,     \* what the last snapshot / serializeNodeWithId call returned
    opKind,     \* the kind of the last task
    allocated,  \* the ids genId returned since the last cleanupSnapshot, in order
    epoch,      \* the number of cleanupSnapshot calls so far
    prevKind,   \* the kind of the task before the last
    firstTree,  \* the ids of the first snapshot of the two-node document made with a new
                \* Mirror and the counter at its initial value
    nTasks,     \* the number of tasks so far
    css         \* a stylesheet text in pieces, the href of its sheet, and what
                \* absoluteToStylesheet made of the text once it was called

vars == <<DOM, _id, mirrors, opts, frameState, sheetLoaded, regs, trace, result,
          opKind, allocated, epoch, prevKind, firstTree, nTasks, css>>

-----------------------------------------------------------------------------
(* Bounds of the model.                                                    *)

MaxTasks == 3
MaxMirrors == 2
MaxPieces == 4
MaxDots == 4

-----------------------------------------------------------------------------
(* Values of the language and of the DOM.                                  *)

IGNORED_NODE == -2

\* JavaScript's undefined, as the value of an attribute or of an option.
undefined == "undefined"

\* serializeNodeWithId's "no node" result.
null == [type |-> "null"]

\* no stylesheet text at hand
NoCss ==
    [pieces |-> <<>>, href |-> <<>>, out |-> <<>>, done |-> FALSE,
     again |-> <<>>, twice |-> FALSE]

\* rootId: undefined
NoRootId == 0

\* What a call that ends by an exception hands to its caller.
Exception == [type |-> "exception"]

SCRIPT_PLACEHOLDER ==
    <<"S","C","R","I","P","T","_","P","L","A","C","E","H","O","L","D","E","R">>

Whitespace == {" ", "\n", "\t"}

-----------------------------------------------------------------------------
(* The live documents.  Tag names are what Element.tagName returns: upper  *)
(* case for HTML elements of an HTML document, the qualified name as       *)
(* written for elements of another namespace (svg and what it holds).      *)

NoAttrs == [x \in {} |-> undefined]

Node(type) ==
    [nodeType |-> type, tagName |-> undefined, parentNode |-> "none",
     childNodes |-> <<>>, hasShadowRoot |-> FALSE, shadowChildNodes |-> <<>>,
     classList |-> {}, attributes |-> NoAttrs, textContent |-> <<>>,
     contentDocument |-> "none", frame |-> "none", inShadow |-> FALSE,
     compatMode |-> undefined, width |-> 0, height |-> 0,
     scrollLeft |-> 0, scrollTop |-> 0,
     \* a canvas: "drawn", or "tainted" when it holds pixels of another origin
     pixels |-> "none",
     \* an image: whether a canvas it is drawn to can still be read
     drawable |-> TRUE,
     \* a link: whether the rules of its sheet can be read
     readable |-> TRUE,
     \* a link: whether reading link.sheet throws
     sheetThrows |-> FALSE]

DocumentNode(kids) ==
    [Node("DOCUMENT_NODE") EXCEPT !.childNodes = kids, !.compatMode = "CSS1Compat"]

Element(tag, parent, kids, attrs) ==
    [Node("ELEMENT_NODE") EXCEPT !.tagName = tag, !.parentNode = parent,
        !.childNodes = kids, !.attributes = attrs,
        !.classList = IF "class" \in DOMAIN attrs THEN {attrs["class"]} ELSE {},
        !.width = 10, !.height = 20]

Text(parent, chars) ==
    [Node("TEXT_NODE") EXCEPT !.parentNode = parent, !.textContent = chars]

Other(type, parent, chars) ==
    [Node(type) EXCEPT !.parentNode = parent, !.textContent = chars]

Documents ==
    \* the top-level document
       ("doc" :> DocumentNode(<<"doctype", "html">>))
    @@ ("doctype" :> Other("DOCUMENT_TYPE_NODE", "doc", <<>>))
    @@ ("html" :> Element("HTML", "doc", <<"head", "body">>, NoAttrs))
    @@ ("head" :> Element("HEAD", "html", <<"ws", "meta", "link", "link0", "xlink", "script">>, NoAttrs))
    @@ ("ws" :> Text("head", <<"\n", " ">>))
    @@ ("meta" :> Element("META", "head", <<>>, ("name" :> "robots") @@ ("content" :> "noindex")))
    @@ ("link" :> Element("LINK", "head", <<>>, ("rel" :> "stylesheet") @@ ("href" :> "a.css")))
    @@ ("link0" :> Element("LINK", "head", <<>>, ("rel" :> "stylesheet")))
    @@ ("xlink" :> [Element("LINK", "head", <<>>,
                            ("rel" :> "stylesheet") @@ ("href" :> "http://other/x.css"))
                    EXCEPT !.readable = FALSE])
    @@ ("script" :> Element("SCRIPT", "head", <<"scriptText">>, NoAttrs))
    @@ ("scriptText" :> Text("script", <<"j", "s">>))
    @@ ("body" :> Element("BODY", "html",
            <<"cmt", "pi", "blk", "msk", "img", "frame", "bframe", "xframe", "svg", "host",
              "canvas", "tcanvas">>,
            NoAttrs))
    @@ ("cmt" :> Other("COMMENT_NODE", "body", <<"c">>))
    @@ ("pi" :> Other("PROCESSING_INSTRUCTION_NODE", "body", <<"p">>))
    @@ ("blk" :> [Element("DIV", "body", <<"blkText">>,
                          ("class" :> "highlight-block") @@ ("title" :> "t"))
                    EXCEPT !.hasShadowRoot = TRUE, !.shadowChildNodes = <<"blkShadow">>])
    @@ ("blkText" :> Text("blk", <<"p", "w">>))
    @@ ("blkShadow" :> [Element("SPAN", "blk", <<>>, NoAttrs) EXCEPT !.inShadow = TRUE])
    @@ ("msk" :> Element("DIV", "body", <<"mskText">>, ("class" :> "highlight-mask")))
    @@ ("mskText" :> Text("msk", <<"a", " ", "b">>))
    @@ ("img" :> [Element("IMG", "body", <<>>, ("src" :> "x.png") @@ ("alt" :> "x"))
                    EXCEPT !.drawable = FALSE])
    @@ ("frame" :> [Element("IFRAME", "body", <<>>, ("src" :> "f.html"))
                    EXCEPT !.contentDocument = "idoc", !.frame = "same"])
    @@ ("bframe" :> [Element("IFRAME", "body", <<>>,
                             ("class" :> "highlight-block") @@ ("src" :> "b.html"))
                    EXCEPT !.contentDocument = "bdoc", !.frame = "same"])
    @@ ("xframe" :> [Element("IFRAME", "body", <<>>,
                             ("class" :> "highlight-block") @@ ("src" :> "http://other/x"))
                    EXCEPT !.frame = "cross"])
    @@ ("svg" :> Element("svg", "body", <<"svgScript", "cdata">>, NoAttrs))
    @@ ("svgScript" :> Element("script", "svg", <<"svgScriptText">>, NoAttrs))
    @@ ("svgScriptText" :> Text("svgScript", <<"k", "1">>))
    @@ ("cdata" :> Other("CDATA_SECTION_NODE", "svg", <<"d">>))
    @@ ("host" :> [Element("DIV", "body", <<"hostText">>, NoAttrs)
                    EXCEPT !.hasShadowRoot = TRUE, !.shadowChildNodes = <<"shadowEl">>])
    @@ ("hostText" :> Text("host", <<"h", "i">>))
    @@ ("shadowEl" :> [Element("SPAN", "host", <<>>, NoAttrs) EXCEPT !.inShadow = TRUE])
    @@ ("canvas" :> [Element("CANVAS", "body", <<>>, ("id" :> "c1"))
                    EXCEPT !.pixels = "drawn"])
    @@ ("tcanvas" :> [Element("CANVAS", "body", <<>>, ("id" :> "c2"))
                    EXCEPT !.pixels = "tainted"])
    \* the document of the iframe "frame"
    @@ ("idoc" :> DocumentNode(<<"ihtml">>))
    @@ ("ihtml" :> Element("HTML", "idoc", <<"ip">>, NoAttrs))
    @@ ("ip" :> Element("P", "ihtml", <<"itext">>, NoAttrs))
    @@ ("itext" :> Text("ip", <<"o", "k">>))
    \* the document of the blocked iframe "bframe"
    @@ ("bdoc" :> DocumentNode(<<"bhtml">>))
    @@ ("bhtml" :> Element("HTML", "bdoc", <<"btext">>, NoAttrs))
    @@ ("btext" :> Text("bhtml", <<"n", "o">>))
    \* a document of two nodes
    @@ ("doc2" :> DocumentNode(<<"html2">>))
    @@ ("html2" :> Element("HTML", "doc2", <<>>, NoAttrs))

Nodes == DOMAIN DOM

Iframes == {n \in Nodes : DOM[n].tagName = "IFRAME" /\ DOM[n].frame = "same"}
Links == {n \in Nodes : DOM[n].tagName = "LINK"}

\* The iframe whose content document d is, "none" for a document of no iframe.
frameElement(d) ==
    IF \E f \in Nodes : DOM[f].contentDocument = d
    THEN CHOOSE f \in Nodes : DOM[f].contentDocument = d
    ELSE "none"

RECURSIVE ownerDocument(_)
ownerDocument(n) ==
    IF DOM[n].nodeType = "DOCUMENT_NODE" THEN n ELSE ownerDocument(DOM[n].parentNode)

\* The nodes above n: its parents (a shadow child's parent is its host), and
\* above a document the iframe that holds it and that iframe's ancestors.
RECURSIVE Above(_)
Above(n) ==
    LET up == IF DOM[n].nodeType = "DOCUMENT_NODE" THEN frameElement(n)
              ELSE DOM[n].parentNode
    IN  IF up = "none" THEN {} ELSE {up} \cup Above(up)

-----------------------------------------------------------------------------
(* Attribute mappings: JavaScript objects, a key with the value undefined  *)
(* being a key of the object all the same.                                 *)

Get(attrs, k) == IF k \in DOMAIN attrs THEN attrs[k] ELSE undefined

Put(attrs, k, v) == [x \in DOMAIN attrs \cup {k} |-> IF x = k THEN v ELSE attrs[x]]

Delete(attrs, k) == [x \in DOMAIN attrs \ {k} |-> attrs[x]]

\* String.prototype.toLowerCase on the tag names of the documents.
toLowerCase(s) ==
    CASE s = "HTML" -> "html" [] s = "HEAD" -> "head" [] s = "BODY" -> "body"
      [] s = "META" -> "meta" [] s = "LINK" -> "link" [] s = "SCRIPT" -> "script"
      [] s = "DIV" -> "div" [] s = "SPAN" -> "span" [] s = "IMG" -> "img"
      [] s = "IFRAME" -> "iframe" [] s = "P" -> "p" [] s = "STYLE" -> "style"
      [] s = "FORM" -> "form" [] s = "CANVAS" -> "canvas"
      [] OTHER -> s

\* `${n}px`
Px(n) == CASE n = 0 -> "0px" [] n = 10 -> "10px" [] n = 20 -> "20px" [] OTHER -> "px"

\* tagNameRegex.test: the lower-cased names that hold a character outside [a-z0-9-_:]
OddTagNames == {"my.tag"}

getValidTagName(n) ==
    IF DOM[n].tagName = "FORM" THEN "form"
    ELSE LET processedTagName == toLowerCase(DOM[n].tagName)
         IN  IF processedTagName \in OddTagNames THEN "div" ELSE processedTagName

\* What the anchor element resolves a URL to, against the document's base.
absoluteToDoc(doc, attributeValue) ==
    CASE attributeValue = "" -> attributeValue
      [] attributeValue = "x.png" -> "http://site/x.png"
      [] attributeValue = "a.css" -> "http://site/a.css"
      [] attributeValue = "f.html" -> "http://site/f.html"
      [] attributeValue = "b.html" -> "http://site/b.html"
      [] OTHER -> attributeValue

\* Strings that are searched are sequences of characters.
StartsWithAt(s, i, prefix) ==
    /\ i + Len(prefix) - 1 <= Len(s)
    /\ SubSeq(s, i, i + Len(prefix) - 1) = prefix

StartsWith(s, prefix) == StartsWithAt(s, 1, prefix)

\* The first index from i on that holds c, 0 when there is none.
IndexFrom(s, i, c) ==
    IF \E j \in i..Len(s) : s[j] = c
    THEN CHOOSE j \in i..Len(s) : s[j] = c /\ \A k \in i..(j - 1) : s[k] # c
    ELSE 0

\* String.prototype.split and Array.prototype.join with a one-character
\* separator, slice(0, 3) and pop.
RECURSIVE SplitFrom(_, _, _)
SplitFrom(s, c, i) ==
    IF IndexFrom(s, i, c) = 0 THEN <<SubSeq(s, i, Len(s))>>
    ELSE <<SubSeq(s, i, IndexFrom(s, i, c) - 1)>> \o SplitFrom(s, c, IndexFrom(s, i, c) + 1)

Split(s, c) == SplitFrom(s, c, 1)

RECURSIVE Join(_, _)
Join(parts, c) ==
    IF parts = <<>> THEN <<>>
    ELSE IF Len(parts) = 1 THEN parts[1]
    ELSE parts[1] \o <<c>> \o Join(Tail(parts), c)

Slice3(parts) == SubSeq(parts, 1, IF Len(parts) < 3 THEN Len(parts) ELSE 3)

Pop(stack) == IF stack = <<>> THEN stack ELSE SubSeq(stack, 1, Len(stack) - 1)

extractOrigin(url) ==
    Split(IF \E i \in 1..(Len(url) - 1) : url[i] = "/" /\ url[i + 1] = "/"
          THEN Join(Slice3(Split(url, "/")), "/")
          ELSE Split(url, "/")[1],
          "?")[1]

Letters ==
    {"a", "b", "c", "d", "e", "f", "g", "h", "i", "j", "k", "l", "m",
     "n", "o", "p", "q", "r", "s", "t", "u", "v", "w", "x", "y", "z",
     "A", "B", "C", "D", "E", "F", "G", "H", "I", "J", "K", "L", "M",
     "N", "O", "P", "Q", "R", "S", "T", "U", "V", "W", "X", "Y", "Z"}

\* What "." of a regular expression does not match.
LineTerminators == {"\n", "\r"}

NoMatch == [ok |-> FALSE, quote |-> <<>>, path |-> <<>>, last |-> 0]

\* url\('([^']*)'\) with "url(" read and p the index after it
SingleQuoted(s, p) ==
    IF /\ p <= Len(s) /\ s[p] = "'"
       /\ IndexFrom(s, p + 1, "'") # 0
       /\ IndexFrom(s, p + 1, "'") < Len(s)
       /\ s[IndexFrom(s, p + 1, "'") + 1] = ")"
    THEN [ok |-> TRUE, quote |-> <<"'">>,
          path |-> SubSeq(s, p + 1, IndexFrom(s, p + 1, "'") - 1),
          last |-> IndexFrom(s, p + 1, "'") + 1]
    ELSE NoMatch

\* where the lazy (.*?) of url\("(.*?)"\) may end: before a " that ) follows,
\* no line terminator on the way
DoubleQuoteEnds(s, p) ==
    {k \in (p + 1)..(Len(s) - 1) :
        /\ s[k] = "\"" /\ s[k + 1] = ")"
        /\ \A x \in (p + 1)..(k - 1) : s[x] \notin LineTerminators}

FirstOf(S) == CHOOSE k \in S : \A x \in S : k <= x

DoubleQuoted(s, p) ==
    IF p <= Len(s) /\ s[p] = "\"" /\ DoubleQuoteEnds(s, p) # {}
    THEN [ok |-> TRUE, quote |-> <<"\"">>,
          path |-> SubSeq(s, p + 1, FirstOf(DoubleQuoteEnds(s, p)) - 1),
          last |-> FirstOf(DoubleQuoteEnds(s, p)) + 1]
    ELSE NoMatch

\* url\(([^)]*)\)
Unquoted(s, p) ==
    IF IndexFrom(s, p, ")") # 0
    THEN [ok |-> TRUE, quote |-> <<>>,
          path |-> SubSeq(s, p, IndexFrom(s, p, ")") - 1),
          last |-> IndexFrom(s, p, ")")]
    ELSE NoMatch

\* The match of URL_IN_CSS_REF that starts at i, the alternatives tried in
\* their order.
URL_IN_CSS_REF(s, i) ==
    IF ~StartsWithAt(s, i, <<"u", "r", "l", "(">>) THEN NoMatch
    ELSE IF SingleQuoted(s, i + 4).ok THEN SingleQuoted(s, i + 4)
    ELSE IF DoubleQuoted(s, i + 4).ok THEN DoubleQuoted(s, i + 4)
    ELSE Unquoted(s, i + 4)

\* RELATIVE_PATH.test(filePath)
RELATIVE_PATH(filePath) ==
    ~ \/ StartsWith(filePath, <<"w", "w", "w", ".">>)
      \/ StartsWith(filePath, <<"h", "t", "t", "p", ":", "/", "/">>)
      \/ StartsWith(filePath, <<"h", "t", "t", "p", "s", ":", "/", "/">>)
      \/ StartsWith(filePath, <<"f", "t", "p", ":", "/", "/">>)
      \/ StartsWith(filePath, <<"f", "t", "p", "s", ":", "/", "/">>)
      \/ Len(filePath) >= 3 /\ filePath[1] \in Letters
                            /\ filePath[2] = ":" /\ filePath[3] = "\\"
      \/ StartsWith(filePath, <<"/", "/">>)
      \/ StartsWith(filePath, <<"#">>)

\* The expression DATA_URI matching nothing: C19 fails of it.
DATA_URIMatchingNothing(filePath) == FALSE

\* DATA_URI.test(filePath), the case of the letters ignored
DATA_URI(filePath) ==
    /\ Len(filePath) >= 5
    /\ filePath[1] \in {"d", "D"} /\ filePath[2] \in {"a", "A"}
    /\ filePath[3] \in {"t", "T"} /\ filePath[4] \in {"a", "A"}
    /\ filePath[5] = ":"
    /\ IndexFrom(filePath, 6, ",") # 0

Url(maybeQuote, filePath) ==
    <<"u", "r", "l", "(">> \o maybeQuote \o filePath \o maybeQuote \o <<")">>

\* for (const part of parts)
RECURSIVE PushParts(_, _, _)
PushParts(stack, parts, i) ==
    IF i > Len(parts) THEN stack
    ELSE IF parts[i] = <<".">> THEN PushParts(stack, parts, i + 1)
    ELSE IF parts[i] = <<".", ".">> THEN PushParts(Pop(stack), parts, i + 1)
    ELSE PushParts(Append(stack, parts[i]), parts, i + 1)

\* The callback of replace: origin is the text matched.
Replacement(origin, maybeQuote, filePath, href) ==
    IF filePath = <<>> THEN origin
    ELSE IF ~RELATIVE_PATH(filePath) THEN Url(maybeQuote, filePath)
    ELSE IF DATA_URI(filePath) THEN Url(maybeQuote, filePath)
    ELSE IF filePath[1] = "/" THEN Url(maybeQuote, extractOrigin(href) \o filePath)
    ELSE Url(maybeQuote,
             Join(PushParts(Pop(Split(href, "/")), Split(filePath, "/"), 1), "/"))

\* String.prototype.replace with the global expression: what follows
\* index i - 1 of cssText.
RECURSIVE ReplaceFrom(_, _, _)
ReplaceFrom(cssText, href, i) ==
    IF i > Len(cssText) THEN <<>>
    ELSE IF URL_IN_CSS_REF(cssText, i).ok
    THEN Replacement(SubSeq(cssText, i, URL_IN_CSS_REF(cssText, i).last),
                     URL_IN_CSS_REF(cssText, i).quote,
                     URL_IN_CSS_REF(cssText, i).path, href)
         \o ReplaceFrom(cssText, href, URL_IN_CSS_REF(cssText, i).last + 1)
    ELSE <<cssText[i]>> \o ReplaceFrom(cssText, href, i + 1)

\* A stylesheet text is a sequence of characters.
absoluteToStylesheet(cssText, href) ==
    IF cssText = <<>> THEN <<>> ELSE ReplaceFrom(cssText, href, 1)

\* (No element of the documents has a srcset or a style attribute.)
transformAttribute(doc, tagName, name, value) ==
    IF name = "src" \/ (name = "href" /\ value # "" /\ ~(tagName = "use" /\ value = "#frag"))
    THEN absoluteToDoc(doc, value)
    ELSE IF name = "xlink:href" /\ value # "" /\ value # "#frag"
    THEN absoluteToDoc(doc, value)
    ELSE IF name = "background" /\ value # "" /\ tagName \in {"table", "td", "th"}
    THEN absoluteToDoc(doc, value)
    ELSE IF tagName = "object" /\ name = "data" /\ value # ""
    THEN absoluteToDoc(doc, value)
    ELSE value

-----------------------------------------------------------------------------
(* The privacy filter.  A class rule is a string (a class name) or a       *)
(* regular expression, which is the set of class names it matches; a       *)
(* selector is null ("none") or the set of nodes it matches.               *)

ClassRule(name) == [kind |-> "string", name |-> name, matches |-> {name}]

\* Element.matches(selector): the elements with the id the selector names.
Matches(selector) ==
    {e \in DOMAIN DOM : /\ DOM[e].nodeType = "ELEMENT_NODE"
                        /\ selector = "#secret"
                        /\ Get(DOM[e].attributes, "id") = "secret"}

_isBlockedElement(element, blockClass, blockSelector) ==
    IF DOM[element].classList \cap blockClass.matches # {} THEN TRUE
    ELSE IF blockSelector # "none" THEN element \in Matches(blockSelector)
    ELSE FALSE

\* Node.parentElement: null ("none") for a child of a document or of a shadow root.
parentElement(n) ==
    LET p == DOM[n].parentNode
    IN  IF p = "none" \/ DOM[n].inShadow THEN "none"
        ELSE IF DOM[p].nodeType = "ELEMENT_NODE" THEN p ELSE "none"

\* el and the elements el.closest walks through.
RECURSIVE InclusiveAncestors(_)
InclusiveAncestors(el) ==
    IF el = "none" THEN {} ELSE {el} \cup InclusiveAncestors(parentElement(el))

\* needMaskingText looking at the parent element alone, not at what
\* el.closest walks through: C25 fails of it.
needMaskingTextOfParent(node, maskTextClass, maskTextSelector) ==
    LET el == IF DOM[node].nodeType = "ELEMENT_NODE" THEN node ELSE parentElement(node)
    IN  IF el = "none" THEN FALSE
        ELSE \/ DOM[el].classList \cap maskTextClass.matches # {}
             \/ /\ maskTextSelector # "none"
                /\ el \in Matches(maskTextSelector)

needMaskingText(node, maskTextClass, maskTextSelector) ==
    LET el == IF DOM[node].nodeType = "ELEMENT_NODE" THEN node ELSE parentElement(node)
    IN  IF el = "none" THEN FALSE
        ELSE \/ \E a \in InclusiveAncestors(el) :
                    DOM[a].classList \cap maskTextClass.matches # {}
             \/ /\ maskTextSelector # "none"
                /\ InclusiveAncestors(el) \cap Matches(maskTextSelector) # {}

\* The fallback mask: textContent.replace(/[\S]/g, '*')
MaskStars(text) ==
    [i \in DOMAIN text |-> IF text[i] \in Whitespace THEN text[i] ELSE "*"]

\* A caller's maskTextFn: "none" when not supplied, else the function named.
ApplyMaskTextFn(maskTextFn, text) ==
    [i \in DOMAIN text |-> "#"]

\* utils.obfuscateText: every word replaced by random characters, "?"
\* standing for a character the random source yields.
obfuscateText(text) ==
    [i \in DOMAIN text |-> IF text[i] = " " THEN " " ELSE "?"]

IGNORE_TAG_NAMES == {"HEAD", "TITLE", "STYLE", "SCRIPT", "HTML", "BODY", "NOSCRIPT"}

-----------------------------------------------------------------------------
(* serializeNode and the functions it dispatches to.                       *)

\* A node object as the Mirror holds it: a node of the documents, or a
\* detached copy of one made by cloneNode.
Live(n) == [node |-> n, clone |-> FALSE]

cloneNode(n) == [node |-> n, clone |-> TRUE, src |-> Get(DOM[n].attributes, "src")]

\* The Mirror (utils): a map from a node object to the id of its record
\* and a map from an id to the node object added last under it.
NewMirror(e) == [idNodeMap |-> <<>>, nodeMetaMap |-> <<>>, epoch |-> e]

hasNode(mirror, ref) == ref \in DOMAIN mirror.nodeMetaMap

getId(mirror, ref) == IF hasNode(mirror, ref) THEN mirror.nodeMetaMap[ref] ELSE -1

add(mirror, ref, id) ==
    [mirror EXCEPT !.idNodeMap = Put(mirror.idNodeMap, id, ref),
                   !.nodeMetaMap = Put(mirror.nodeMetaMap, ref, id)]

\* getRootId with its first test inverted: C11 fails of it.
getRootIdInverted(doc, mirror) ==
    IF hasNode(mirror, Live(doc)) THEN NoRootId
    ELSE LET docId == getId(mirror, Live(doc))
         IN  IF docId = 1 THEN NoRootId ELSE docId

getRootId(doc, mirror) ==
    IF ~hasNode(mirror, Live(doc)) THEN NoRootId
    ELSE LET docId == getId(mirror, Live(doc))
         IN  IF docId = 1 THEN NoRootId ELSE docId

parentTagNameOf(n) ==
    IF DOM[n].parentNode = "none" \/ DOM[n].inShadow THEN undefined
    ELSE DOM[DOM[n].parentNode].tagName

\* textContent and textContentHandled after the step for <style>: the
\* sheet's rules are the text itself.
StyleStep(textContent, parentTagName) ==
    IF parentTagName = "STYLE" /\ textContent # <<>>
    THEN [textContent |-> absoluteToStylesheet(textContent, ""), textContentHandled |-> TRUE]
    ELSE [textContent |-> textContent, textContentHandled |-> FALSE]

ScriptStep(t, parentTagName) ==
    IF parentTagName = "SCRIPT"
    THEN [textContent |-> SCRIPT_PLACEHOLDER, textContentHandled |-> TRUE]
    ELSE IF parentTagName = "NOSCRIPT"
    THEN [textContent |-> <<>>, textContentHandled |-> TRUE]
    ELSE t

MaskStep(n, options, t, parentTagName) ==
    IF /\ parentTagName # "STYLE" /\ parentTagName # "SCRIPT" /\ t.textContent # <<>>
       /\ needMaskingText(n, options.maskTextClass, options.maskTextSelector)
    THEN [t EXCEPT !.textContent = IF options.maskTextFn # "none"
                                   THEN ApplyMaskTextFn(options.maskTextFn, @)
                                   ELSE MaskStars(@)]
    ELSE t

StrictPrivacyStep(options, t, parentTagName) ==
    IF /\ options.enableStrictPrivacy /\ ~t.textContentHandled
       /\ parentTagName # undefined
       /\ parentTagName \notin IGNORE_TAG_NAMES /\ t.textContent # <<>>
    THEN obfuscateText(t.textContent)
    ELSE t.textContent

TextSteps(n, options, rootId, parentTagName) ==
    [type |-> "Text",
     textContent |->
        StrictPrivacyStep(options,
            MaskStep(n, options,
                ScriptStep(StyleStep(DOM[n].textContent, parentTagName), parentTagName),
                parentTagName),
            parentTagName),
     isStyle |-> parentTagName = "STYLE",
     rootId |-> rootId]

serializeTextNode(n, options, rootId) ==
    TextSteps(n, options, rootId, parentTagNameOf(n))

\* el.tagName === 'svg' || el.ownerSVGElement
isSVGElement(el) ==
    \/ DOM[el].tagName = "svg"
    \/ \E a \in InclusiveAncestors(parentElement(el)) : DOM[a].tagName = "svg"

\* The attributes of a blocked or masked element: class and the bounding box.
BlockedAttributes(n, attributes) ==
    [class |-> Get(attributes, "class"),
     rr_width |-> Px(DOM[n].width),
     rr_height |-> Px(DOM[n].height)]

\* The attributes as the loop over n.attributes leaves them.
TransformedAttributes(n, options, tagName) ==
    [k \in DOMAIN DOM[n].attributes |->
        transformAttribute(options.doc, tagName, k, DOM[n].attributes[k])]

\* remote css: the sheet is found once the link has loaded;
\* getCssRulesString returns null for a sheet whose rules cannot be read.
RemoteCssStep(n, options, tagName, attributes, live) ==
    IF /\ tagName = "link" /\ options.inlineStylesheet
       /\ "href" \in DOMAIN DOM[n].attributes /\ live.sheetLoaded[n]
       /\ DOM[n].readable
    THEN Put(Delete(Delete(attributes, "rel"), "href"), "_cssText", "css")
    ELSE attributes

\* canvas image data (the context of the canvases is unknown): toDataURL
\* throws a SecurityError for a tainted canvas, and nothing catches it.
CanvasThrows(n, options, tagName) ==
    tagName = "canvas" /\ options.recordCanvas /\ DOM[n].pixels = "tainted"

CanvasStep(n, options, tagName, attributes) ==
    IF tagName = "canvas" /\ options.recordCanvas /\ DOM[n].pixels = "drawn"
    THEN Put(attributes, "rr_dataURL", "data:canvas")
    ELSE attributes

\* save image offline (the images are complete): recordInlineImage
\* catches what drawImage and toDataURL throw.
InlineImageStep(n, options, tagName, needBlock, needMask, attributes) ==
    IF /\ tagName = "img" /\ options.inlineImages
       /\ ~needBlock /\ ~needMask /\ ~options.enableStrictPrivacy
       /\ DOM[n].drawable
    THEN Put(attributes, "rr_dataURL", "data:image")
    ELSE attributes

ScrollLeftStep(n, attributes) ==
    IF DOM[n].scrollLeft # 0 THEN Put(attributes, "rr_scrollLeft", "scrolled") ELSE attributes

ScrollTopStep(n, attributes) ==
    IF DOM[n].scrollTop # 0 THEN Put(attributes, "rr_scrollTop", "scrolled") ELSE attributes

ScrollStep(n, options, attributes) ==
    IF options.newlyAddedElement THEN attributes
    ELSE ScrollTopStep(n, ScrollLeftStep(n, attributes))

\* needBlock || needMask || (tagName === 'img' && enableStrictPrivacy)
BlockCondition(options, tagName, needBlock, needMask) ==
    needBlock \/ needMask \/ (tagName = "img" /\ options.enableStrictPrivacy)

BlockStep(n, options, tagName, needBlock, needMask, attributes) ==
    IF BlockCondition(options, tagName, needBlock, needMask)
    THEN BlockedAttributes(n, attributes)
    ELSE attributes

\* needBlock as the block step leaves it.
NeedBlockAfter(options, tagName, needBlock, needMask) ==
    IF BlockCondition(options, tagName, needBlock, needMask) /\ options.enableStrictPrivacy
    THEN TRUE
    ELSE needBlock

\* The iframe step: an iframe whose src the caller's keepIframeSrcFn does not keep.
IframeSrcStep(n, options, tagName, attributes) ==
    IF tagName # "iframe" \/ options.keepIframeSrcFn = "keep" THEN attributes
    ELSE Delete(IF DOM[n].contentDocument = "none"
                THEN Put(attributes, "rr_src", Get(attributes, "src"))
                ELSE attributes,
                "src")

\* The steps for form fields, options and media elements read properties
\* that no element of the documents has.
ElementSteps(n, options, rootId, live, tagName, needBlock, needMask) ==
    [type |-> "Element", tagName |-> tagName,
     attributes |->
        IframeSrcStep(n, options, tagName,
            BlockStep(n, options, tagName, needBlock, needMask,
                ScrollStep(n, options,
                    InlineImageStep(n, options, tagName, needBlock, needMask,
                        CanvasStep(n, options, tagName,
                            RemoteCssStep(n, options, tagName,
                                          TransformedAttributes(n, options, tagName),
                                          live)))))),
     childNodes |-> <<>>, isSVG |-> isSVGElement(n),
     needBlock |-> NeedBlockAfter(options, tagName, needBlock, needMask),
     needMask |-> needMask, rootId |-> rootId]

serializeElementNode(n, options, rootId, live) ==
    IF CanvasThrows(n, options, getValidTagName(n)) THEN Exception
    ELSE ElementSteps(n, options, rootId, live, getValidTagName(n),
                      _isBlockedElement(n, options.blockClass, options.blockSelector),
                      _isBlockedElement(n, options.maskTextClass, "none"))

\* serializeNode: false is null here, the caller treating both as "not serialized".
\* serializeNode with a record for a node of any other kind, where the code
\* returns false: C24 fails of it.
serializeNodeOfAnyKind(n, options, mirror, live) ==
    LET rootId == getRootId(options.doc, mirror)
        t == DOM[n].nodeType
    IN  CASE t = "DOCUMENT_NODE" ->
                IF DOM[n].compatMode # "CSS1Compat"
                THEN [type |-> "Document", childNodes |-> <<>>,
                      compatMode |-> DOM[n].compatMode, rootId |-> rootId]
                ELSE [type |-> "Document", childNodes |-> <<>>, rootId |-> rootId]
          [] t = "DOCUMENT_TYPE_NODE" ->
                [type |-> "DocumentType", name |-> "html", publicId |-> "",
                 systemId |-> "", rootId |-> rootId]
          [] t = "ELEMENT_NODE" -> serializeElementNode(n, options, rootId, live)
          [] t = "TEXT_NODE" -> serializeTextNode(n, options, rootId)
          [] t = "CDATA_SECTION_NODE" ->
                [type |-> "CDATA", textContent |-> <<>>, rootId |-> rootId]
          [] t = "COMMENT_NODE" ->
                [type |-> "Comment", textContent |-> DOM[n].textContent, rootId |-> rootId]
          [] OTHER ->
                [type |-> "Comment", textContent |-> DOM[n].textContent, rootId |-> rootId]

serializeNode(n, options, mirror, live) ==
    LET rootId == getRootId(options.doc, mirror)
        t == DOM[n].nodeType
    IN  CASE t = "DOCUMENT_NODE" ->
                IF DOM[n].compatMode # "CSS1Compat"
                THEN [type |-> "Document", childNodes |-> <<>>,
                      compatMode |-> DOM[n].compatMode, rootId |-> rootId]
                ELSE [type |-> "Document", childNodes |-> <<>>, rootId |-> rootId]
          [] t = "DOCUMENT_TYPE_NODE" ->
                [type |-> "DocumentType", name |-> "html", publicId |-> "",
                 systemId |-> "", rootId |-> rootId]
          [] t = "ELEMENT_NODE" -> serializeElementNode(n, options, rootId, live)
          [] t = "TEXT_NODE" -> serializeTextNode(n, options, rootId)
          [] t = "CDATA_SECTION_NODE" ->
                [type |-> "CDATA", textContent |-> <<>>, rootId |-> rootId]
          [] t = "COMMENT_NODE" ->
                [type |-> "Comment", textContent |-> DOM[n].textContent, rootId |-> rootId]
          [] OTHER -> null

lowerIfExists(maybeAttr) == IF maybeAttr = undefined THEN "" ELSE maybeAttr

slimDOMExcluded(sn, slimDOMOptions) ==
    IF slimDOMOptions.comment /\ sn.type = "Comment" THEN TRUE
    ELSE IF sn.type # "Element" THEN FALSE
    ELSE LET at(k) == Get(sn.attributes, k)
             name == lowerIfExists(at("name"))
             rel == lowerIfExists(at("rel"))
             property == lowerIfExists(at("property"))
         IN
         IF /\ slimDOMOptions.script
            /\ \/ sn.tagName = "script"
               \/ (sn.tagName = "link" /\ at("rel") = "preload" /\ at("as") = "script")
               \/ (sn.tagName = "link" /\ at("rel") = "prefetch" /\ at("href") = "http://site/p.js")
         THEN TRUE
         ELSE IF /\ slimDOMOptions.headFavicon
                 /\ \/ (sn.tagName = "link" /\ at("rel") = "shortcut icon")
                    \/ /\ sn.tagName = "meta"
                       /\ \/ name \in {"msapplication-tileimage", "msapplication-tilecolor",
                                       "application-name"}
                          \/ rel \in {"icon", "apple-touch-icon", "shortcut icon"}
         THEN TRUE
         ELSE IF sn.tagName # "meta" THEN FALSE
         ELSE IF slimDOMOptions.headMetaDescKeywords /\ name \in {"description", "keywords"}
         THEN TRUE
         ELSE IF /\ slimDOMOptions.headMetaSocial
                 /\ \/ property \in {"og:title", "twitter:card", "fb:app_id"}
                    \/ name \in {"og:title", "twitter:card", "pinterest"}
         THEN TRUE
         ELSE IF slimDOMOptions.headMetaRobots /\ name \in {"robots", "googlebot", "bingbot"}
         THEN TRUE
         ELSE IF slimDOMOptions.headMetaHttpEquiv /\ at("http-equiv") # undefined
         THEN TRUE
         ELSE IF /\ slimDOMOptions.headMetaAuthorship
                 /\ \/ name \in {"author", "generator", "framework", "publisher", "progid"}
                    \/ property \in {"article:author", "product:price"}
         THEN TRUE
         ELSE IF /\ slimDOMOptions.headMetaVerification
                 /\ name \in {"google-site-verification", "yandex-verification", "csrf-token",
                              "p:domain_verify", "verify-v1", "verification",
                              "shopify-checkout-api-token"}
         THEN TRUE
         ELSE FALSE

\* _serializedNode.textContent.replace(/^\s+|\s+$/gm, '').length = 0
OnlyWhitespace(text) == \A i \in DOMAIN text : text[i] \in Whitespace

-----------------------------------------------------------------------------
(* The tree walker.  A walk threads st, the state the code reads and       *)
(* writes while it runs: the id counter, the Mirrors, the timers and       *)
(* listeners registered, and the record of what happened.  live is the     *)
(* part of the documents that changes under the walker's feet, which a     *)
(* walk only reads.  serializeNodeWithId is written as its stages, each    *)
(* handing what it computed to the next.                                   *)

Emit(st, e) == [st EXCEPT !.trace = Append(@, e)]

\* genId without the increment: C4 fails of it.
genIdWithoutIncrement(st) ==
    [id |-> st.id, st |-> [st EXCEPT !.allocated = Append(@, st.id)]]

genId(st) ==
    [id |-> st.id,
     st |-> [st EXCEPT !.id = st.id + 1, !.allocated = Append(@, st.id)]]

\* The identify step without the reuse of the Mirror's id: C1 fails of it.
IdentifyNodeWithoutReuse(n, _serializedNode, options, st) ==
    IF \/ slimDOMExcluded(_serializedNode, options.slimDOMOptions)
       \/ /\ ~options.preserveWhiteSpace
          /\ _serializedNode.type = "Text"
          /\ ~_serializedNode.isStyle
          /\ OnlyWhitespace(_serializedNode.textContent)
    THEN [id |-> IGNORED_NODE, st |-> st]
    ELSE genId(st)

\* The identify step with genId called before the exclusions are looked
\* at: C2 fails of it.
IdentifyNodeCountingIgnored(n, _serializedNode, options, st) ==
    IF hasNode(st.mirrors[options.mirror], Live(n))
    THEN [id |-> getId(st.mirrors[options.mirror], Live(n)), st |-> st]
    ELSE IF \/ slimDOMExcluded(_serializedNode, options.slimDOMOptions)
            \/ /\ ~options.preserveWhiteSpace
               /\ _serializedNode.type = "Text"
               /\ ~_serializedNode.isStyle
               /\ OnlyWhitespace(_serializedNode.textContent)
    THEN [id |-> IGNORED_NODE, st |-> genId(st).st]
    ELSE genId(st)

\* The identify step with mirror.getId in the place of genId: C5 fails of it.
IdentifyNodeWithoutGenId(n, _serializedNode, options, st) ==
    IF hasNode(st.mirrors[options.mirror], Live(n))
    THEN [id |-> getId(st.mirrors[options.mirror], Live(n)), st |-> st]
    ELSE IF \/ slimDOMExcluded(_serializedNode, options.slimDOMOptions)
            \/ /\ ~options.preserveWhiteSpace
               /\ _serializedNode.type = "Text"
               /\ ~_serializedNode.isStyle
               /\ OnlyWhitespace(_serializedNode.textContent)
    THEN [id |-> IGNORED_NODE, st |-> st]
    ELSE [id |-> getId(st.mirrors[options.mirror], Live(n)), st |-> st]

\* The identify step with the exclusions looked at before the Mirror:
\* C28 fails of it.
IdentifyNodeExclusionsFirst(n, _serializedNode, options, st) ==
    IF \/ slimDOMExcluded(_serializedNode, options.slimDOMOptions)
       \/ /\ ~options.preserveWhiteSpace
          /\ _serializedNode.type = "Text"
          /\ ~_serializedNode.isStyle
          /\ OnlyWhitespace(_serializedNode.textContent)
    THEN [id |-> IGNORED_NODE, st |-> st]
    ELSE IF hasNode(st.mirrors[options.mirror], Live(n))
    THEN [id |-> getId(st.mirrors[options.mirror], Live(n)), st |-> st]
    ELSE genId(st)

\* Identify: reuse the Mirror's id, or the ignored id, or a new id.
IdentifyNode(n, _serializedNode, options, st) ==
    IF hasNode(st.mirrors[options.mirror], Live(n))
    THEN [id |-> getId(st.mirrors[options.mirror], Live(n)), st |-> st]
    ELSE IF \/ slimDOMExcluded(_serializedNode, options.slimDOMOptions)
            \/ /\ ~options.preserveWhiteSpace
               /\ _serializedNode.type = "Text"
               /\ ~_serializedNode.isStyle
               /\ OnlyWhitespace(_serializedNode.textContent)
    THEN [id |-> IGNORED_NODE, st |-> st]
    ELSE genId(st)

\* (has: what mirror.hasNode(n) is when the callback runs)
OnSerialize(n, options, st) ==
    IF options.onSerialize
    THEN Emit(st, [ev |-> "onSerialize", n |-> n, walk |-> st.walk,
                   has |-> hasNode(st.mirrors[options.mirror], Live(n))])
    ELSE st

\* mirror.add left out, the rest of the call as it is: C27 fails of it.
MirrorAddLeftOut(n, id, options, st) ==
    Emit(st, [ev |-> "add", n |-> n, id |-> id, mirror |-> options.mirror, walk |-> st.walk])

MirrorAdd(n, id, options, st) ==
    Emit([st EXCEPT !.mirrors[options.mirror] = add(@, Live(n), id)],
         [ev |-> "add", n |-> n, id |-> id, mirror |-> options.mirror, walk |-> st.walk])

\* onSerialize(n) called before mirror.add(n, serializedNode): C20 fails
\* of it.
RegisterNodeCallbackFirst(n, id, options, st) ==
    MirrorAdd(n, id, options, OnSerialize(n, options, st))

\* Register: mirror.add(n, serializedNode), then onSerialize(n).
RegisterNode(n, id, options, st) ==
    OnSerialize(n, options, MirrorAdd(n, id, options, st))

\* strictPrivacy without needMask: C22 fails of it.
StrictPrivacyBelowUnmasked(serializedNode, options) ==
    IF serializedNode.type = "Element"
    THEN options.enableStrictPrivacy \/ serializedNode.needBlock
    ELSE options.enableStrictPrivacy

\* strictPrivacy, as the children's options carry it.
StrictPrivacyBelow(serializedNode, options) ==
    IF serializedNode.type = "Element"
    THEN options.enableStrictPrivacy \/ serializedNode.needBlock \/ serializedNode.needMask
    ELSE options.enableStrictPrivacy

\* The copy of the image registered with its src left as it is: C8 fails of it.
RegisterImageCloneKeepingSrc(n, serializedNode, options, st) ==
    IF /\ serializedNode.type = "Element"
       /\ StrictPrivacyBelow(serializedNode, options)
       /\ serializedNode.tagName = "img"
    THEN [st EXCEPT !.mirrors[options.mirror] = add(@, cloneNode(n), serializedNode.id)]
    ELSE st

\* Under strict privacy an image is registered once more, as a copy without src.
RegisterImageClone(n, serializedNode, options, st) ==
    IF /\ serializedNode.type = "Element"
       /\ StrictPrivacyBelow(serializedNode, options)
       /\ serializedNode.tagName = "img"
    THEN [st EXCEPT !.mirrors[options.mirror] =
                add(@, [cloneNode(n) EXCEPT !.src = ""], serializedNode.id)]
    ELSE st

\* recordChild without the test of needBlock: C21 fails of it.
RecordChildOfBlocked(serializedNode, options) ==
    /\ serializedNode.type \in {"Document", "Element"}
    /\ ~options.skipChild

\* recordChild, as it stands when the walker decides whether to recurse.
RecordChild(serializedNode, options) ==
    /\ serializedNode.type \in {"Document", "Element"}
    /\ ~options.skipChild
    /\ (serializedNode.type = "Element" => ~serializedNode.needBlock)

\* utils.isNativeShadowDom: the shadow roots of the documents are native.
isNativeShadowDom(host) == DOM[host].hasShadowRoot

\* The options the nested calls run with.
BypassOptions(serializedNode, options) ==
    [options EXCEPT
        !.preserveWhiteSpace =
            IF /\ options.slimDOMOptions.headWhitespace
               /\ serializedNode.type = "Element"
               /\ serializedNode.tagName = "head"
            THEN FALSE ELSE @,
        !.newlyAddedElement = FALSE,
        !.enableStrictPrivacy = StrictPrivacyBelow(serializedNode, options)]

\* The options a completion callback calls serializeNodeWithId with.
CallbackOptions(options, doc) ==
    [options EXCEPT !.doc = doc, !.skipChild = FALSE, !.newlyAddedElement = FALSE]

\* A record with its children named by id, as the trace keeps it.
Shallow(sn) ==
    IF "childNodes" \in DOMAIN sn
    THEN [sn EXCEPT !.childNodes = [i \in DOMAIN sn.childNodes |-> sn.childNodes[i].id]]
    ELSE sn

\* The ids of a tree, in document order.
RECURSIVE FlatIds(_)
RECURSIVE FlatIdsOf(_, _)

FlatIdsOf(kids, i) ==
    IF i > Len(kids) THEN <<>> ELSE FlatIds(kids[i]) \o FlatIdsOf(kids, i + 1)

FlatIds(sn) ==
    IF sn = null \/ sn = Exception THEN <<>>
    ELSE <<sn.id>> \o (IF "childNodes" \in DOMAIN sn THEN FlatIdsOf(sn.childNodes, 1)
                       ELSE <<>>)

RECURSIVE serializeNodeWithId(_, _, _, _)
RECURSIVE SerializeChildren(_, _, _, _, _, _)

\* if (serializedNode) callback(n, serializedNode)
Deliver(callback, n, r) ==
    IF r.sn # null
    THEN Emit(r.st, [ev |-> callback, n |-> n, depth |-> r.st.depth,
                     node |-> Shallow(r.sn), ids |-> FlatIds(r.sn)])
    ELSE r.st

\* The listener serializeNodeWithId hands to onceIframeLoaded.
IframeListener(n, options, st, live) ==
    IF DOM[n].contentDocument # "none" /\ options.onIframeLoad
    THEN Deliver("onIframeLoad", n,
                 serializeNodeWithId(DOM[n].contentDocument,
                                     CallbackOptions(options, DOM[n].contentDocument),
                                     Emit(st, [ev |-> "listener", kind |-> "iframe", n |-> n]),
                                     live))
    ELSE Emit(st, [ev |-> "listener", kind |-> "iframe", n |-> n])

\* The listener serializeNodeWithId hands to onceStylesheetLoaded.
StylesheetListener(n, options, st, live) ==
    IF options.onStylesheetLoad
    THEN Deliver("onStylesheetLoad", n,
                 serializeNodeWithId(n, CallbackOptions(options, options.doc),
                                     Emit(st, [ev |-> "listener", kind |-> "sheet", n |-> n]),
                                     live))
    ELSE Emit(st, [ev |-> "listener", kind |-> "sheet", n |-> n])

Listener(reg, st, live) ==
    IF reg.kind = "iframe" THEN IframeListener(reg.n, reg.options, st, live)
    ELSE StylesheetListener(reg.n, reg.options, st, live)

\* What one call of onceIframeLoaded or onceStylesheetLoaded leaves behind:
\* timer is "none", "pending", "cleared" or "done"; a guarded timer and a
\* latching load listener share the flag fired; calls counts the calls of
\* the listener handed over, delivered those that ended in a call of
\* onIframeLoad or onStylesheetLoad, and at names the call of
\* serializeNodeWithId that made the registration: the task and the
\* place of the call in the task.
Registration(kind, n, options, timer, guarded) ==
    [kind |-> kind, n |-> n, options |-> options, timer |-> timer,
     guarded |-> guarded, fired |-> FALSE, calls |-> 0, delivered |-> 0,
     at |-> <<0, 0>>]

Register(st, reg) ==
    [st EXCEPT !.regs = Append(@, [reg EXCEPT !.at = <<st.task, Len(st.trace)>>])]

\* onceIframeLoaded calling the listener of a loaded iframe itself, where
\* the code leaves the call to a timer: C10 fails of it.
onceIframeLoadedCallingAtOnce(iframeEl, options, st, live) ==
    IF DOM[iframeEl].frame # "same" THEN st
    ELSE IF live.frameState[iframeEl] = "loading"
    THEN Register(st, Registration("iframe", iframeEl, options, "pending", TRUE))
    ELSE IF live.frameState[iframeEl] # "blank"
    THEN IframeListener(iframeEl, options,
                        Register(st, Registration("iframe", iframeEl, options, "none", FALSE)),
                        live)
    ELSE Register(st, Registration("iframe", iframeEl, options, "none", FALSE))

onceIframeLoaded(iframeEl, options, st, live) ==
    IF DOM[iframeEl].frame # "same" THEN st   \* no contentWindow, or readyState throws
    ELSE IF live.frameState[iframeEl] = "loading"
    THEN Register(st, Registration("iframe", iframeEl, options, "pending", TRUE))
    ELSE IF live.frameState[iframeEl] # "blank"
    THEN Register(st, Registration("iframe", iframeEl, options, "pending", FALSE))
    ELSE Register(st, Registration("iframe", iframeEl, options, "none", FALSE))

\* isStylesheetLoaded without its first line, the test of href: C16 fails
\* of it.
isStylesheetLoadedWithoutHrefTest(link, live) == live.sheetLoaded[link]

isStylesheetLoaded(link, live) ==
    IF "href" \notin DOMAIN DOM[link].attributes THEN TRUE
    ELSE live.sheetLoaded[link]

\* isStylesheetLoaded reads link.sheet outside any try.
isStylesheetLoadedThrows(link) ==
    "href" \in DOMAIN DOM[link].attributes /\ DOM[link].sheetThrows

onceStylesheetLoaded(link, options, st, live) ==
    IF DOM[link].sheetThrows THEN st   \* catch (error) { return }
    ELSE IF live.sheetLoaded[link] THEN st
    ELSE Register(st, Registration("sheet", link, options, "pending", TRUE))

IsStylesheetLink(serializedNode) ==
    /\ serializedNode.type = "Element"
    /\ serializedNode.tagName = "link"
    /\ Get(serializedNode.attributes, "rel") = "stylesheet"

\* One block for <link rel=stylesheet>: nothing is done once an earlier
\* block has returned null.
StylesheetBlock(n, serializedNode, options, sheet, live) ==
    IF sheet.suppressed \/ sheet.st.thrown \/ ~IsStylesheetLink(serializedNode) THEN sheet
    ELSE IF isStylesheetLoadedThrows(n)
    THEN [st |-> [onceStylesheetLoaded(n, options, sheet.st, live) EXCEPT !.thrown = TRUE],
          suppressed |-> FALSE]
    ELSE [st |-> onceStylesheetLoaded(n, options, sheet.st, live),
          suppressed |-> ~isStylesheetLoaded(n, live)]

\* The block for <iframe>.
IframeBlock(n, serializedNode, options, st, live) ==
    IF serializedNode.type = "Element" /\ serializedNode.tagName = "iframe"
    THEN onceIframeLoaded(n, options, st, live)
    ELSE st

\* if (serializedChildNode) childNodes.push(serializedChildNode)
PushChild(out, r, shadow) ==
    [st |-> r.st,
     out |-> IF r.sn = null THEN out
             ELSE Append(out, IF shadow THEN [r.sn EXCEPT !.isShadow = TRUE] ELSE r.sn)]

\* The serialized children of kids[i..], appended to acc.out.
SerializeChildren(kids, i, shadow, options, acc, live) ==
    IF i > Len(kids) \/ acc.st.depth < 0 \/ acc.st.thrown THEN acc
    ELSE SerializeChildren(kids, i + 1, shadow, options,
                           PushChild(acc.out,
                                     serializeNodeWithId(kids[i], options, acc.st, live),
                                     shadow),
                           live)

ShadowChildren(n, options, acc, live) ==
    IF DOM[n].hasShadowRoot
    THEN SerializeChildren(DOM[n].shadowChildNodes, 1, isNativeShadowDom(n), options, acc, live)
    ELSE acc

\* Recurse: the regular children, then the children of the shadow root.
Recurse(n, serializedNode, options, st, live) ==
    IF RecordChild(serializedNode, options)
    THEN ShadowChildren(n, BypassOptions(serializedNode, options),
                        SerializeChildren(DOM[n].childNodes, 1, FALSE,
                                          BypassOptions(serializedNode, options),
                                          [st |-> st, out |-> <<>>], live),
                        live)
    ELSE [st |-> st, out |-> <<>>]

\* The record as returned: needBlock and needMask deleted, the children
\* and the shadow flags set.
Finished(n, serializedNode, childNodes) ==
    LET isShadow == DOM[n].inShadow /\ isNativeShadowDom(DOM[n].parentNode)
    IN  IF serializedNode.type = "Element"
        THEN [type |-> "Element", tagName |-> serializedNode.tagName,
              attributes |-> serializedNode.attributes, childNodes |-> childNodes,
              isSVG |-> serializedNode.isSVG, rootId |-> serializedNode.rootId,
              id |-> serializedNode.id,
              isShadowHost |-> DOM[n].hasShadowRoot /\ isNativeShadowDom(n),
              isShadow |-> isShadow]
        ELSE IF serializedNode.type = "Document"
        THEN [serializedNode EXCEPT !.childNodes = childNodes] @@ [isShadow |-> isShadow]
        ELSE serializedNode @@ [isShadow |-> isShadow]

\* The end of a call: the exit is recorded with what the call did; entry
\* is the state the call started in.
Return(n, options, st, entry, id, alloc, sn, why) ==
    [sn |-> sn,
     st |-> Emit([st EXCEPT !.depth = @ - 1],
                 [ev |-> "exit", n |-> n, depth |-> st.depth - 1, counter |-> st.id,
                  walk |-> st.walk,
                  had |-> hasNode(entry.mirrors[options.mirror], Live(n)),
                  prevId |-> getId(entry.mirrors[options.mirror], Live(n)),
                  id |-> id, alloc |-> alloc,
                  mirror |-> options.mirror,
                  strict |-> options.enableStrictPrivacy,
                  skipChild |-> options.skipChild,
                  registered |-> IF id \in DOMAIN st.mirrors[options.mirror].idNodeMap
                                 THEN st.mirrors[options.mirror].idNodeMap[id]
                                 ELSE null,
                  why |-> why,
                  sn |-> IF sn = null THEN null ELSE Shallow(sn)])]

\* An exception leaves the call where it is thrown, and every call above
\* it: none of them catches.
Throw(n, st) ==
    [sn |-> null,
     st |-> Emit([st EXCEPT !.depth = @ - 1, !.thrown = TRUE], [ev |-> "throw", n |-> n])]

Unwind(st) == [sn |-> null, st |-> [st EXCEPT !.depth = @ - 1]]

\* return null after the stylesheet blocks, or return serializedNode
Augmented(n, options, entry, alloc, serializedNode, sheet) ==
    IF sheet.st.thrown THEN Throw(n, sheet.st)
    ELSE IF sheet.suppressed
    THEN Return(n, options, sheet.st, entry, serializedNode.id, alloc, null,
                "stylesheet not loaded")
    ELSE Return(n, options, sheet.st, entry, serializedNode.id, alloc, serializedNode, "")

\* Async-augment: the iframe block, then the two stylesheet blocks.
Augment(n, options, entry, alloc, serializedNode, st, live) ==
    Augmented(n, options, entry, alloc, serializedNode,
        StylesheetBlock(n, serializedNode, options,
            StylesheetBlock(n, serializedNode, options,
                [st |-> IframeBlock(n, serializedNode, options, st, live),
                 suppressed |-> FALSE],
                live),
            live))

\* (the children are done before the record is finished)
Recursed(n, options, entry, alloc, serializedNode, all, live) ==
    IF all.st.depth < 0 THEN [sn |-> null, st |-> all.st]
    ELSE IF all.st.thrown THEN Unwind(all.st)
    ELSE Augment(n, options, entry, alloc, Finished(n, serializedNode, all.out), all.st, live)

\* Register, then recurse.
Identified(n, options, entry, alloc, serializedNode, st, live) ==
    Recursed(n, options, entry, alloc, serializedNode,
             Recurse(n, serializedNode, options,
                     RegisterImageClone(n, serializedNode, options,
                                        RegisterNode(n, serializedNode.id, options, st)),
                     live),
             live)

Identify(n, options, entry, _serializedNode, ident, live) ==
    IF ident.id = IGNORED_NODE
    THEN Return(n, options, ident.st, entry, ident.id, FALSE, null, "ignored")
    ELSE Identified(n, options, entry, Len(ident.st.allocated) > Len(entry.allocated),
                    _serializedNode @@ [id |-> ident.id], ident.st, live)

Serialized(n, options, entry, _serializedNode, live) ==
    IF _serializedNode = Exception THEN Throw(n, entry)
    ELSE IF _serializedNode = null
    THEN Return(n, options, entry, entry, -1, FALSE, null, "not serialized")
    ELSE Identify(n, options, entry, _serializedNode,
                  IdentifyNode(n, _serializedNode, options, entry), live)

Entered(n, options, entry, live) ==
    Serialized(n, options, entry,
               serializeNode(n, options, entry.mirrors[options.mirror], live), live)

serializeNodeWithId(n, options, st, live) ==
    IF st.depth < 0 THEN [sn |-> null, st |-> st]   \* (never: st is computed first)
    ELSE Entered(n, options,
                 Emit([st EXCEPT !.depth = @ + 1,
                                 !.walk = IF st.depth = 0 THEN @ + 1 ELSE @],
                      [ev |-> "enter", n |-> n, depth |-> st.depth, counter |-> st.id,
                       mirror |-> options.mirror,
                       walk |-> IF st.depth = 0 THEN st.walk + 1 ELSE st.walk]),
                 live)

-----------------------------------------------------------------------------
(* The entry points and the tasks of the event loop.                       *)

SlimDOMNone ==
    [script |-> FALSE, comment |-> FALSE, headFavicon |-> FALSE, headWhitespace |-> FALSE,
     headMetaDescKeywords |-> FALSE, headMetaSocial |-> FALSE, headMetaRobots |-> FALSE,
     headMetaHttpEquiv |-> FALSE, headMetaAuthorship |-> FALSE,
     headMetaVerification |-> FALSE]

\* snapshot's expansion of the slimDOM shorthand.
slimDOMOptionsOf(slimDOM) ==
    IF slimDOM = "true" \/ slimDOM = "all"
    THEN [script |-> TRUE, comment |-> TRUE, headFavicon |-> TRUE, headWhitespace |-> TRUE,
          headMetaDescKeywords |-> slimDOM = "all", headMetaSocial |-> TRUE,
          headMetaRobots |-> TRUE, headMetaHttpEquiv |-> TRUE, headMetaAuthorship |-> TRUE,
          headMetaVerification |-> TRUE]
    ELSE SlimDOMNone

\* What a caller passes to snapshot; a field left out by the caller holds
\* the default that snapshot or serializeNodeWithId gives it.
DefaultConfig ==
    [blockClass |-> ClassRule("highlight-block"), blockSelector |-> "none",
     maskTextClass |-> ClassRule("highlight-mask"), maskTextSelector |-> "none",
     inlineStylesheet |-> TRUE, maskTextFn |-> "none", slimDOM |-> "false",
     preserveWhiteSpace |-> TRUE, onSerialize |-> TRUE, onIframeLoad |-> TRUE,
     onStylesheetLoad |-> TRUE, keepIframeSrcFn |-> "reject", enableStrictPrivacy |-> FALSE,
     inlineImages |-> FALSE, recordCanvas |-> FALSE]

OptionSets ==
    { [DefaultConfig EXCEPT !.enableStrictPrivacy = s, !.maskTextFn = f] :
            s \in BOOLEAN, f \in {"none", "hash"} }
    \cup { [DefaultConfig EXCEPT !.slimDOM = "all", !.preserveWhiteSpace = FALSE,
                                 !.inlineStylesheet = FALSE],
           [DefaultConfig EXCEPT !.keepIframeSrcFn = "keep", !.onIframeLoad = FALSE,
                                 !.onStylesheetLoad = FALSE, !.onSerialize = FALSE],
           [DefaultConfig EXCEPT !.inlineImages = TRUE, !.recordCanvas = TRUE] }

\* The options of a serializeNodeWithId call made with the configuration c.
OptionsOf(c, doc, mirror, skipChild, newlyAddedElement) ==
    [doc |-> doc, mirror |-> mirror,
     blockClass |-> c.blockClass, blockSelector |-> c.blockSelector,
     maskTextClass |-> c.maskTextClass, maskTextSelector |-> c.maskTextSelector,
     skipChild |-> skipChild, inlineStylesheet |-> c.inlineStylesheet,
     maskTextFn |-> c.maskTextFn, slimDOMOptions |-> slimDOMOptionsOf(c.slimDOM),
     preserveWhiteSpace |-> c.preserveWhiteSpace, onSerialize |-> c.onSerialize,
     onIframeLoad |-> c.onIframeLoad, onStylesheetLoad |-> c.onStylesheetLoad,
     keepIframeSrcFn |-> c.keepIframeSrcFn, newlyAddedElement |-> newlyAddedElement,
     enableStrictPrivacy |-> c.enableStrictPrivacy,
     inlineImages |-> c.inlineImages, recordCanvas |-> c.recordCanvas]

Live0 == [frameState |-> frameState, sheetLoaded |-> sheetLoaded]

\* The state a task starts from; its trace is empty.
Start(ms) ==
    [id |-> _id, mirrors |-> ms, regs |-> regs, trace |-> <<>>,
     allocated |-> allocated, depth |-> 0, walk |-> 0, task |-> nTasks + 1,
     thrown |-> FALSE]

\* snapshot(n, options)
snapshot(n, c, mirror, st, live) ==
    serializeNodeWithId(n, OptionsOf(c, n, mirror, FALSE, FALSE), st, live)

\* cleanupSnapshot leaving the counter where it is: C3 fails of it.
cleanupSnapshotWithoutReset(st) == st

cleanupSnapshot(st) == [st EXCEPT !.id = 1]

\* A task ended in the state st.
Commit(st, kind, r) ==
    /\ _id' = st.id
    /\ mirrors' = st.mirrors
    /\ regs' = st.regs
    /\ trace' = st.trace
    /\ allocated' = st.allocated
    /\ result' = r
    /\ opKind' = kind
    /\ prevKind' = opKind

TopDocuments == {"doc", "doc2"}

\* The calls the mutation observer makes: a node and skipChild.
ObservedCalls == {<<"host", FALSE>>, <<"host", TRUE>>, <<"img", TRUE>>}

CommitWalk(r, kind) == Commit(r.st, kind, IF r.st.thrown THEN Exception ELSE r.sn)

\* A snapshot with the Mirror m, a new Mirror when m is none of those at hand.
Snapshot(d, m) ==
    /\ nTasks < MaxTasks
    /\ m <= MaxMirrors
    /\ CommitWalk(snapshot(d, opts, m,
                           Start(IF m > Len(mirrors)
                                 THEN Append(mirrors, NewMirror(epoch)) ELSE mirrors),
                           Live0),
                  "snapshot")
    /\ firstTree' = IF /\ d = "doc2" /\ m > Len(mirrors) /\ firstTree = <<>>
                       /\ opKind \in {"init", "cleanup"}
                    THEN <<FlatIds(result')>> ELSE firstTree
    /\ nTasks' = nTasks + 1
    /\ UNCHANGED <<css, DOM, opts, frameState, sheetLoaded, epoch>>

\* The observer passes skipChild and newlyAddedElement together.
SerializeObserved(n, m, skipChild) ==
    /\ nTasks < MaxTasks
    /\ CommitWalk(serializeNodeWithId(
                        n, OptionsOf(opts, ownerDocument(n), m, skipChild, skipChild),
                        Start(mirrors), Live0),
                  "serialize")
    /\ nTasks' = nTasks + 1
    /\ UNCHANGED <<css, DOM, opts, frameState, sheetLoaded, epoch, firstTree>>

CleanupSnapshot ==
    /\ nTasks < MaxTasks
    /\ _id > 1
    /\ _id' = cleanupSnapshot(Start(mirrors)).id
    /\ trace' = <<>>
    /\ allocated' = <<>>
    /\ epoch' = epoch + 1
    /\ prevKind' = opKind
    /\ opKind' = "cleanup"
    /\ result' = null
    /\ nTasks' = nTasks + 1
    /\ UNCHANGED <<css, DOM, mirrors, opts, frameState, sheetLoaded, regs, firstTree>>

\* The timer of registration i expires.
\* (fired = true is not reached when the listener has thrown)
SetFired(i, st) == IF st.thrown THEN st ELSE [st EXCEPT !.regs[i].fired = TRUE]

TimerDone(i, st) == [st EXCEPT !.regs[i].timer = "done"]

Called(i, st) == [st EXCEPT !.regs[i].calls = @ + 1]

\* The listener has returned: whether it called onIframeLoad or
\* onStylesheetLoad, which is then the last thing it did.
Counted(i, before, st) ==
    IF /\ Len(st.trace) > before
       /\ st.trace[Len(st.trace)].ev \in {"onIframeLoad", "onStylesheetLoad"}
    THEN [st EXCEPT !.regs[i].delivered = @ + 1]
    ELSE st

\* listener()
Invoke(i, st, live) ==
    Counted(i, Len(st.trace), Listener(st.regs[i], Called(i, st), live))

TimerTask(i, st, live) ==
    IF st.regs[i].guarded
    THEN IF ~st.regs[i].fired
         THEN SetFired(i, Invoke(i, TimerDone(i, st), live))
         ELSE TimerDone(i, st)
    ELSE Invoke(i, TimerDone(i, st), live)

\* The load listener of registration i runs.
ClearTimeout(i, st) ==
    [st EXCEPT !.regs[i].timer = IF @ = "pending" THEN "cleared" ELSE @]

LoadListenerTask(i, st, live) ==
    IF st.regs[i].guarded
    THEN Invoke(i, SetFired(i, ClearTimeout(i, st)), live)
    ELSE Invoke(i, st, live)

\* A load event at node: the listeners registered before the dispatch run,
\* in the order of their registration.
\* What a listener throws is reported, and the next listener runs.
Reported(st) == [st EXCEPT !.thrown = FALSE]

RECURSIVE Dispatch(_, _, _, _, _)
Dispatch(node, i, last, st, live) ==
    IF i > last THEN st
    ELSE Dispatch(node, i + 1, last,
                  IF st.regs[i].n = node
                  THEN Reported(LoadListenerTask(i, st, live))
                  ELSE st,
                  live)

\* The timer of registration i expires: the task that the event loop runs
\* for a timer that was set and not cleared.
TimerExpires(i) ==
    /\ regs[i].timer = "pending"
    /\ Commit(TimerTask(i, Start(mirrors), Live0), "timer", null)
    /\ nTasks' = nTasks + 1
    /\ UNCHANGED <<css, DOM, opts, frameState, sheetLoaded, epoch, firstTree>>

TimerFires(i) ==
    /\ nTasks < MaxTasks
    /\ TimerExpires(i)

\* A load event that no listener hears and that changes nothing is left out.
IframeLoads(f) ==
    /\ nTasks < MaxTasks
    /\ frameState[f] # "complete" \/ \E i \in DOMAIN regs : regs[i].n = f
    /\ frameState' = [frameState EXCEPT ![f] = "complete"]
    /\ Commit(Dispatch(f, 1, Len(regs), Start(mirrors),
                       [frameState |-> frameState', sheetLoaded |-> sheetLoaded]),
              "load", null)
    /\ nTasks' = nTasks + 1
    /\ UNCHANGED <<css, DOM, opts, sheetLoaded, epoch, firstTree>>

StylesheetLoads(l) ==
    /\ nTasks < MaxTasks
    /\ "href" \in DOMAIN DOM[l].attributes
    /\ ~sheetLoaded[l]
    /\ sheetLoaded' = [sheetLoaded EXCEPT ![l] = TRUE]
    /\ Commit(Dispatch(l, 1, Len(regs), Start(mirrors),
                       [frameState |-> frameState, sheetLoaded |-> sheetLoaded']),
              "load", null)
    /\ nTasks' = nTasks + 1
    /\ UNCHANGED <<css, DOM, opts, frameState, epoch, firstTree>>

Init ==
    /\ DOM = Documents
    /\ _id = 1
    /\ mirrors = <<>>
    /\ \/ /\ opts \in OptionSets
          /\ frameState = [f \in Iframes |-> IF f = "frame" THEN "loading" ELSE "complete"]
       \/ /\ opts = DefaultConfig
          /\ frameState = [f \in Iframes |-> IF f = "frame" THEN "blank" ELSE "complete"]
    /\ sheetLoaded = [l \in Links |-> l = "xlink"]
    /\ regs = <<>>
    /\ trace = <<>>
    /\ result = null
    /\ opKind = "init"
    /\ allocated = <<>>
    /\ epoch = 0
    /\ prevKind = "init"
    /\ firstTree = <<>>
    /\ nTasks = 0
    /\ css = NoCss

Next ==
    \/ \E d \in TopDocuments, m \in 1..(Len(mirrors) + 1) : Snapshot(d, m)
    \/ \E c \in ObservedCalls, m \in DOMAIN mirrors : SerializeObserved(c[1], m, c[2])
    \/ CleanupSnapshot
    \/ \E i \in DOMAIN regs : TimerFires(i)
    \/ \E f \in Iframes : IframeLoads(f)
    \/ \E l \in Links : StylesheetLoads(l)

Spec == Init /\ [][Next]_vars

-----------------------------------------------------------------------------
(* The timers under the scheduling of the event loop.  A page of two slow  *)
(* iframes, the document of the second holding a tainted canvas.  The      *)
(* recorder and the network do what they do at most MaxTasks times and     *)
(* need never do anything; a timer that is set expires, whatever else      *)
(* happens.  The documents of the iframes hold neither iframes nor links,  *)
(* so a timer sets no further timer.                                       *)

SlowFrames ==
       ("doc" :> DocumentNode(<<"html">>))
    @@ ("html" :> Element("HTML", "doc", <<"body">>, NoAttrs))
    @@ ("body" :> Element("BODY", "html", <<"frame", "cframe">>, NoAttrs))
    @@ ("frame" :> [Element("IFRAME", "body", <<>>, ("src" :> "f.html"))
                    EXCEPT !.contentDocument = "idoc", !.frame = "same"])
    @@ ("cframe" :> [Element("IFRAME", "body", <<>>, ("src" :> "b.html"))
                    EXCEPT !.contentDocument = "cdoc", !.frame = "same"])
    @@ ("idoc" :> DocumentNode(<<"ihtml">>))
    @@ ("ihtml" :> Element("HTML", "idoc", <<"itext">>, NoAttrs))
    @@ ("itext" :> Text("ihtml", <<"o", "k">>))
    @@ ("cdoc" :> DocumentNode(<<"chtml">>))
    @@ ("chtml" :> Element("HTML", "cdoc", <<"ccanvas">>, NoAttrs))
    @@ ("ccanvas" :> [Element("CANVAS", "chtml", <<>>, NoAttrs)
                    EXCEPT !.pixels = "tainted"])

TimerOptionSets ==
    { DefaultConfig,
      [DefaultConfig EXCEPT !.onIframeLoad = FALSE],
      [DefaultConfig EXCEPT !.inlineImages = TRUE, !.recordCanvas = TRUE] }

\* The registrations there can be: two for each snapshot.
TimerIndices == 1..(2 * MaxTasks)

TimerInit ==
    /\ DOM = SlowFrames
    /\ _id = 1
    /\ mirrors = <<>>
    /\ opts \in TimerOptionSets
    /\ frameState = [f \in Iframes |-> "loading"]
    /\ sheetLoaded = [l \in Links |-> FALSE]
    /\ regs = <<>>
    /\ trace = <<>>
    /\ result = null
    /\ opKind = "init"
    /\ allocated = <<>>
    /\ epoch = 0
    /\ prevKind = "init"
    /\ firstTree = <<>>
    /\ nTasks = 0
    /\ css = NoCss

TimerNext ==
    \/ \E m \in 1..(Len(mirrors) + 1) : Snapshot("doc", m)
    \/ CleanupSnapshot
    \/ \E i \in DOMAIN regs : TimerExpires(i)
    \/ \E f \in Iframes : IframeLoads(f)

\* What a step TimerExpires(i) does to nTasks and opKind, which no other
\* step of TimerNext does: the event loop runs a timer that is due.  Every
\* step of a timer retires that timer and sets no other, so that some
\* timer expires while one is pending means that each one expires.
TimerRuns ==
    /\ \E i \in DOMAIN regs : regs[i].timer = "pending"
    /\ opKind' = "timer"
    /\ nTasks' = nTasks + 1

TimerSpec ==
    /\ TimerInit
    /\ [][TimerNext]_vars
    /\ WF_<<nTasks, opKind>>(TimerRuns)

-----------------------------------------------------------------------------
(* The stylesheet links of a page: one that is loading, one without href,  *)
(* one of another origin that is loaded and keeps its rules to itself, and *)
(* one that is loading and carries the block class.                        *)

SheetLinks ==
       ("doc" :> DocumentNode(<<"html">>))
    @@ ("html" :> Element("HTML", "doc", <<"head">>, NoAttrs))
    @@ ("head" :> Element("HEAD", "html", <<"link", "link0", "xlink", "blink">>, NoAttrs))
    @@ ("link" :> Element("LINK", "head", <<>>, ("rel" :> "stylesheet") @@ ("href" :> "a.css")))
    @@ ("link0" :> Element("LINK", "head", <<>>, ("rel" :> "stylesheet")))
    @@ ("xlink" :> [Element("LINK", "head", <<>>,
                            ("rel" :> "stylesheet") @@ ("href" :> "http://other/x.css"))
                    EXCEPT !.readable = FALSE])
    @@ ("blink" :> Element("LINK", "head", <<>>,
                           ("rel" :> "stylesheet") @@ ("href" :> "b.css")
                           @@ ("class" :> "highlight-block")))

\* A page whose nodes cannot be probed: an iframe of another origin
\* (win.document throws), an iframe with no contentWindow, and a link
\* whose sheet cannot be read without an exception.
ProbedNodes ==
       ("pdoc" :> DocumentNode(<<"phtml">>))
    @@ ("phtml" :> Element("HTML", "pdoc", <<"pbody">>, NoAttrs))
    @@ ("pbody" :> Element("BODY", "phtml", <<"oframe", "wframe", "tlink">>, NoAttrs))
    @@ ("oframe" :> [Element("IFRAME", "pbody", <<>>, ("src" :> "http://other/"))
                     EXCEPT !.frame = "cross"])
    @@ ("wframe" :> Element("IFRAME", "pbody", <<>>, NoAttrs))
    @@ ("tlink" :> [Element("LINK", "pbody", <<>>,
                            ("rel" :> "stylesheet") @@ ("href" :> "t.css"))
                    EXCEPT !.sheetThrows = TRUE])

SheetOptionSets ==
    { DefaultConfig,
      [DefaultConfig EXCEPT !.inlineStylesheet = FALSE],
      [DefaultConfig EXCEPT !.slimDOM = "all", !.preserveWhiteSpace = FALSE],
      [DefaultConfig EXCEPT !.onStylesheetLoad = FALSE] }

SheetInit ==
    /\ DOM = SheetLinks @@ ProbedNodes
    /\ _id = 1
    /\ mirrors = <<>>
    /\ opts \in SheetOptionSets
    /\ frameState = [f \in Iframes |-> "loading"]
    /\ sheetLoaded = [l \in Links |-> l \in {"xlink", "tlink"}]
    /\ regs = <<>>
    /\ trace = <<>>
    /\ result = null
    /\ opKind = "init"
    /\ allocated = <<>>
    /\ epoch = 0
    /\ prevKind = "init"
    /\ firstTree = <<>>
    /\ nTasks = 0
    /\ css = NoCss

SheetNext ==
    \/ \E d \in {"doc", "pdoc"}, m \in 1..(Len(mirrors) + 1) : Snapshot(d, m)
    \/ \E l \in Links, m \in DOMAIN mirrors : SerializeObserved(l, m, TRUE)
    \/ \E i \in DOMAIN regs : TimerFires(i)
    \/ \E l \in Links : StylesheetLoads(l)

SheetSpec == SheetInit /\ [][SheetNext]_vars

-----------------------------------------------------------------------------
(* Stylesheet texts for absoluteToStylesheet: a text is up to MaxPieces    *)
(* pieces, a piece being a reference url(...) in one of the three quotings *)
(* or some other text.                                                     *)

Quotes == {<<>>, <<"'">>, <<"\"">>}

\* a file beside the sheet, a file under the root of the origin
RelativeFile == <<"a", ".", "p", "n", "g">>
RootedFile == <<"/", "r", ".", "p", "n", "g">>
DataUri == <<"d", "a", "t", "a", ":", "i", "m", "a", "g", "e", "/", "p", "n", "g", ";", "b", "a", "s", "e", "6", "4", ",", "A", "A", "=", "=">>

Hrefs == {<<"h", "t", "t", "p", ":", "/", "/", "h", "/", "d", "/", "s", ".", "c", "s", "s">>}

Pieces ==
    [ref : {TRUE}, quote : Quotes, path : {RelativeFile, RootedFile, DataUri}]
    \cup {[ref |-> FALSE, quote |-> <<>>, path |-> <<";">>]}

\* The text of a piece, and of pieces in a row.
PieceText(piece) ==
    IF piece.ref THEN Url(piece.quote, piece.path) ELSE piece.path

RECURSIVE CssTextOf(_)
CssTextOf(pieces) ==
    IF pieces = <<>> THEN <<>> ELSE PieceText(Head(pieces)) \o CssTextOf(Tail(pieces))

CssInit ==
    /\ DOM = Documents
    /\ _id = 1
    /\ mirrors = <<>>
    /\ opts = DefaultConfig
    /\ frameState = [f \in Iframes |-> "complete"]
    /\ sheetLoaded = [l \in Links |-> FALSE]
    /\ regs = <<>>
    /\ trace = <<>>
    /\ result = null
    /\ opKind = "init"
    /\ allocated = <<>>
    /\ epoch = 0
    /\ prevKind = "init"
    /\ firstTree = <<>>
    /\ nTasks = 0
    /\ \E n \in 1..MaxPieces : \E pieces \in [1..n -> Pieces], href \in Hrefs :
          css = [NoCss EXCEPT !.pieces = pieces, !.href = href]

\* absoluteToStylesheet(cssText, href) is called.
Rewrite ==
    /\ ~css.done
    /\ css' = [css EXCEPT !.out = absoluteToStylesheet(CssTextOf(css.pieces), css.href),
                          !.done = TRUE]
    /\ UNCHANGED <<DOM, _id, mirrors, opts, frameState, sheetLoaded, regs, trace, result,
                   opKind, allocated, epoch, prevKind, firstTree, nTasks>>

CssNext == Rewrite

CssSpec == CssInit /\ [][CssNext]_vars

-----------------------------------------------------------------------------
(* References that climb: a text is one reference whose path is up to      *)
(* MaxDots segments '..', '.' or a directory, then a file; the text that   *)
(* absoluteToStylesheet made of it is given to absoluteToStylesheet again. *)

Segments == {<<".", ".">>, <<".">>, <<"e">>}

DotPaths ==
    {Join(segs \o <<RelativeFile>>, "/") :
        segs \in UNION {[1..n -> Segments] : n \in 0..MaxDots}}

DotHrefs ==
    Hrefs \cup {<<"h", "t", "t", "p", "s", ":", "/", "/", "h", "/", "s", ".", "c", "s", "s">>}

DotInit ==
    /\ DOM = Documents
    /\ _id = 1
    /\ mirrors = <<>>
    /\ opts = DefaultConfig
    /\ frameState = [f \in Iframes |-> "complete"]
    /\ sheetLoaded = [l \in Links |-> FALSE]
    /\ regs = <<>>
    /\ trace = <<>>
    /\ result = null
    /\ opKind = "init"
    /\ allocated = <<>>
    /\ epoch = 0
    /\ prevKind = "init"
    /\ firstTree = <<>>
    /\ nTasks = 0
    /\ \E quote \in Quotes, path \in DotPaths, href \in DotHrefs :
          css = [NoCss EXCEPT !.pieces = <<[ref |-> TRUE, quote |-> quote, path |-> path]>>,
                              !.href = href]

\* absoluteToStylesheet(absoluteToStylesheet(cssText, href), href)
RewriteAgain ==
    /\ css.done /\ ~css.twice
    /\ css' = [css EXCEPT !.again = absoluteToStylesheet(css.out, css.href),
                          !.twice = TRUE]
    /\ UNCHANGED <<DOM, _id, mirrors, opts, frameState, sheetLoaded, regs, trace, result,
                   opKind, allocated, epoch, prevKind, firstTree, nTasks>>

DotNext == Rewrite \/ RewriteAgain

DotSpec == DotInit /\ [][DotNext]_vars

-----------------------------------------------------------------------------
(* A page of texts to mask: below an element that the mask selector        *)
(* matches, below an element of the mask class, and in a <noscript>.       *)

MaskedTexts ==
       ("doc" :> DocumentNode(<<"html">>))
    @@ ("html" :> Element("HTML", "doc", <<"body">>, NoAttrs))
    @@ ("body" :> Element("BODY", "html", <<"sel", "msk", "plain">>, NoAttrs))
    @@ ("sel" :> Element("DIV", "body", <<"selText", "selIn", "ns">>, ("id" :> "secret")))
    @@ ("selText" :> Text("sel", <<"a", " ", "b">>))
    @@ ("selIn" :> Element("SPAN", "sel", <<"selInText">>, NoAttrs))
    @@ ("selInText" :> Text("selIn", <<"c", "d", "\n">>))
    @@ ("ns" :> Element("NOSCRIPT", "sel", <<"nsText">>, NoAttrs))
    @@ ("nsText" :> Text("ns", <<"n">>))
    @@ ("msk" :> Element("DIV", "body", <<"mskText">>, ("class" :> "highlight-mask")))
    @@ ("mskText" :> Text("msk", <<"e", " ", "f">>))
    @@ ("plain" :> Element("P", "body", <<"plainText">>, NoAttrs))
    @@ ("plainText" :> Text("plain", <<"g">>))

\* maskTextSelector: '#secret'
MaskOptionSets ==
    { [DefaultConfig EXCEPT !.maskTextSelector = "#secret",
                            !.enableStrictPrivacy = s, !.maskTextFn = f] :
            s \in BOOLEAN, f \in {"none", "hash"} }

MaskInit ==
    /\ DOM = MaskedTexts
    /\ _id = 1
    /\ mirrors = <<>>
    /\ opts \in MaskOptionSets
    /\ frameState = [f \in Iframes |-> "complete"]
    /\ sheetLoaded = [l \in Links |-> FALSE]
    /\ regs = <<>>
    /\ trace = <<>>
    /\ result = null
    /\ opKind = "init"
    /\ allocated = <<>>
    /\ epoch = 0
    /\ prevKind = "init"
    /\ firstTree = <<>>
    /\ nTasks = 0
    /\ css = NoCss

\* The observer's calls are for a text that was added, or for an element
\* with skipChild.
MaskNext ==
    \/ \E m \in 1..(Len(mirrors) + 1) : Snapshot("doc", m)
    \/ \E n \in {"selText", "selInText", "mskText", "nsText"}, m \in DOMAIN mirrors :
            SerializeObserved(n, m, FALSE)
    \/ \E m \in DOMAIN mirrors : SerializeObserved("msk", m, TRUE)
    \/ CleanupSnapshot

MaskSpec == MaskInit /\ [][MaskNext]_vars

-----------------------------------------------------------------------------
(* A page that is serialized again after the caller's options or the page  *)
(* have changed: a script, a comment and a text that slimDOM or the        *)
(* whitespace rule leave out.                                              *)

SlimPage ==
       ("doc" :> DocumentNode(<<"html">>))
    @@ ("html" :> Element("HTML", "doc", <<"head", "body">>, NoAttrs))
    @@ ("head" :> Element("HEAD", "html", <<"scr">>, NoAttrs))
    @@ ("scr" :> Element("SCRIPT", "head", <<>>, ("src" :> "a.js")))
    @@ ("body" :> Element("BODY", "html", <<"txt", "cmt">>, NoAttrs))
    @@ ("txt" :> Text("body", <<"h", "i">>))
    @@ ("cmt" :> Other("COMMENT_NODE", "body", <<"c">>))

SlimOptionSets ==
    { DefaultConfig,
      [DefaultConfig EXCEPT !.slimDOM = "all", !.preserveWhiteSpace = FALSE] }

SlimInit ==
    /\ DOM = SlimPage
    /\ _id = 1
    /\ mirrors = <<>>
    /\ opts \in SlimOptionSets
    /\ frameState = [f \in Iframes |-> "complete"]
    /\ sheetLoaded = [l \in Links |-> FALSE]
    /\ regs = <<>>
    /\ trace = <<>>
    /\ result = null
    /\ opKind = "init"
    /\ allocated = <<>>
    /\ epoch = 0
    /\ prevKind = "init"
    /\ firstTree = <<>>
    /\ nTasks = 0
    /\ css = NoCss

\* The caller passes other options to the calls that follow.
OptionsChange ==
    /\ opts' \in SlimOptionSets \ {opts}
    /\ opKind' = "options"
    /\ prevKind' = opKind
    /\ UNCHANGED <<css, DOM, _id, mirrors, frameState, sheetLoaded, regs, trace, result,
                   allocated, epoch, firstTree, nTasks>>

\* The page sets the data of a text node.
TextChanges(n, chars) ==
    /\ DOM[n].textContent # chars
    /\ DOM' = [DOM EXCEPT ![n].textContent = chars]
    /\ opKind' = "mutation"
    /\ prevKind' = opKind
    /\ UNCHANGED <<css, _id, mirrors, opts, frameState, sheetLoaded, regs, trace, result,
                   allocated, epoch, firstTree, nTasks>>

SlimNext ==
    \/ \E m \in 1..(Len(mirrors) + 1) : Snapshot("doc", m)
    \/ \E n \in {"txt", "cmt", "scr"}, m \in DOMAIN mirrors : SerializeObserved(n, m, TRUE)
    \/ CleanupSnapshot
    \/ OptionsChange
    \/ TextChanges("txt", <<" ", "\n">>)

SlimSpec == SlimInit /\ [][SlimNext]_vars

-----------------------------------------------------------------------------
(* What the trace of a task shows.                                         *)

Range(f) == {f[x] : x \in DOMAIN f}

\* The returns of serializeNodeWithId in the last task.
Exits == {i \in DOMAIN trace : trace[i].ev = "exit"}

\* The returns that took a new id.
Allocations == {i \in Exits : trace[i].alloc}

\* The calls of the callbacks that deliver a record.
Deliveries == {i \in DOMAIN trace : trace[i].ev \in {"onIframeLoad", "onStylesheetLoad"}}

\* The last task was a call of snapshot or serializeNodeWithId by the recorder.
SynchronousCall == opKind \in {"snapshot", "serialize"}

\* n is an element that the block rule of the recorder's options matches.
Blocked(n) ==
    /\ DOM[n].nodeType = "ELEMENT_NODE"
    /\ _isBlockedElement(n, opts.blockClass, opts.blockSelector)

BlockedByClass(n) ==
    /\ DOM[n].nodeType = "ELEMENT_NODE"
    /\ DOM[n].classList \cap opts.blockClass.matches # {}

ChildrenOf(n) == Range(DOM[n].childNodes) \cup Range(DOM[n].shadowChildNodes)

BlockKeys == {"class", "rr_width", "rr_height"}

\* n is a text node whose parent is a script element, of HTML or of SVG.
ScriptText(n) ==
    /\ DOM[n].nodeType = "TEXT_NODE"
    /\ DOM[n].parentNode # "none"
    /\ DOM[DOM[n].parentNode].nodeType = "ELEMENT_NODE"
    /\ DOM[DOM[n].parentNode].tagName \in {"SCRIPT", "script"}

-----------------------------------------------------------------------------
(* The claims.                                                             *)

\* C1: a node the Mirror already holds is returned under the id the Mirror
\* holds for it and takes no new id; and the id of every record returned
\* is the id the Mirror holds for its node afterwards, so a second pass
\* with the same Mirror repeats the ids of the first.
C1_IdempotentIdentity ==
    \A i \in Exits :
        /\ trace[i].had => (trace[i].id = trace[i].prevId /\ ~trace[i].alloc)
        /\ trace[i].sn # null =>
              getId(mirrors[trace[i].mirror], Live(trace[i].n)) = trace[i].sn.id

\* A second snapshot of the document with the Mirror of the first, no
\* cleanupSnapshot between them.
C1_Witness ==
    /\ opKind = "snapshot" /\ prevKind = "snapshot"
    /\ result # null
    /\ \E i \in Exits :
          /\ trace[i].n = "html" /\ trace[i].had
          /\ trace[i].sn # null /\ trace[i].sn.id = trace[i].prevId

\* C2: a call that gives its node the id IGNORED_NODE returns null, visits
\* nothing beneath the node, leaves the counter where it was and adds
\* nothing to the Mirror; no record returned or delivered holds that id.
C2_IgnoredNodeAbsent ==
    /\ \A i \in Exits :
          trace[i].id = IGNORED_NODE =>
              /\ trace[i].sn = null
              /\ ~trace[i].alloc
              /\ trace[i - 1].ev = "enter" /\ trace[i - 1].n = trace[i].n
              /\ trace[i - 1].counter = trace[i].counter
              /\ ~hasNode(mirrors[trace[i].mirror], Live(trace[i].n))
    /\ IGNORED_NODE \notin Range(FlatIds(result))
    /\ \A i \in Deliveries : IGNORED_NODE \notin Range(trace[i].ids)

\* A snapshot that ignores the whitespace text of <head> and the robots
\* <meta>, and returns a tree.
C2_Witness ==
    /\ result # null
    /\ \E i, j \in Exits :
          /\ trace[i].n = "ws" /\ trace[i].id = IGNORED_NODE
          /\ trace[j].n = "meta" /\ trace[j].id = IGNORED_NODE

\* C3: a snapshot of the two-node document with a new Mirror, made right
\* after cleanupSnapshot, numbers the document 1 and its element 2, as
\* did the first such snapshot made with the counter at its initial value.
C3_CleanupRestartsAtOne ==
    (/\ opKind = "snapshot" /\ prevKind = "cleanup"
     /\ Len(trace) > 0 /\ trace[1].n = "doc2"
     /\ mirrors[trace[1].mirror].epoch = epoch)
    => /\ result # null /\ result.id = 1
       /\ FlatIds(result) = <<1, 2>>
       /\ firstTree # <<>> => firstTree[1] = FlatIds(result)

\* snapshot, cleanupSnapshot, snapshot, of the two-node document.
C3_Witness ==
    /\ opKind = "snapshot" /\ prevKind = "cleanup"
    /\ Len(trace) > 0 /\ trace[1].n = "doc2"
    /\ mirrors[trace[1].mirror].epoch = epoch
    /\ Len(mirrors) = 2
    /\ firstTree = <<FlatIds(result)>>

\* C4: the ids taken since the last cleanupSnapshot are strictly
\* increasing in the order they were taken, and of two nodes that take
\* their ids in the same walk the one above in the tree has the smaller.
C4_MonotonicPreOrder ==
    /\ \A i, j \in DOMAIN allocated : i < j => allocated[i] < allocated[j]
    /\ \A i, j \in Allocations :
          (trace[i].walk = trace[j].walk /\ trace[j].n \in Above(trace[i].n))
              => trace[j].id < trace[i].id

\* The iframe's document walked by the iframe's listener, after a snapshot.
C4_Witness ==
    /\ Len(allocated) > 10
    /\ \E i, j \in Allocations :
          /\ trace[i].n = "itext" /\ trace[j].n = "idoc"
          /\ trace[i].walk = trace[j].walk
          /\ trace[j].id < trace[i].id

\* C5: in a Mirror made since the last cleanupSnapshot no two live nodes
\* have the same id, and the node held under a live node's id is that
\* node or the copy of it made for an image under strict privacy.
C5_MirrorInjective ==
    \A m \in DOMAIN mirrors :
        mirrors[m].epoch = epoch =>
            \A a \in DOMAIN mirrors[m].nodeMetaMap :
                ~a.clone =>
                    /\ \A b \in DOMAIN mirrors[m].nodeMetaMap :
                          (~b.clone /\ b # a) =>
                              mirrors[m].nodeMetaMap[b] # mirrors[m].nodeMetaMap[a]
                    /\ mirrors[m].idNodeMap[mirrors[m].nodeMetaMap[a]].node = a.node

\* A Mirror that holds the copy of an image and the nodes an iframe's
\* listener added.
C5_Witness ==
    \E m \in DOMAIN mirrors :
        /\ mirrors[m].epoch = epoch
        /\ Live("itext") \in DOMAIN mirrors[m].nodeMetaMap
        /\ \E a \in DOMAIN mirrors[m].nodeMetaMap : a.clone
        /\ opKind \in {"timer", "load"}

\* C6: the record of an element whose class list holds the block class
\* has the attribute keys class, rr_width and rr_height and no others, has
\* no children, and none of the element's children is visited.
C6_BlockedElementRecord ==
    \A i \in Exits :
        (trace[i].sn # null /\ BlockedByClass(trace[i].n)) =>
            /\ DOMAIN trace[i].sn.attributes = BlockKeys
            /\ trace[i].sn.childNodes = <<>>
            /\ \A k \in DOMAIN trace :
                  trace[k].ev = "enter" => trace[k].n \notin ChildrenOf(trace[i].n)

\* The blocked iframe without a content document, its src rejected: its
\* record holds rr_src beside the three keys.
C6_Witness ==
    \E i \in Exits :
        /\ trace[i].n = "xframe" /\ BlockedByClass("xframe")
        /\ trace[i].sn # null
        /\ DOMAIN trace[i].sn.attributes = BlockKeys \cup {"rr_src"}
        /\ trace[i].sn.attributes.rr_src = undefined

\* C7: no node beneath a blocked element is visited, and nothing is
\* delivered for a blocked element.
C7_BlockedContentWithheld ==
    /\ \A k \in DOMAIN trace :
          trace[k].ev = "enter" => \A a \in Above(trace[k].n) : ~Blocked(a)
    /\ \A k \in Deliveries : ~Blocked(trace[k].n)

\* The document of the blocked iframe delivered to onIframeLoad.
C7_Witness ==
    \E k \in Deliveries :
        /\ trace[k].ev = "onIframeLoad" /\ trace[k].n = "bframe" /\ Blocked("bframe")
        /\ Len(trace[k].ids) = 3
        /\ \E i \in Exits : trace[i].n = "btext" /\ trace[i].sn # null

\* C8: the record of an image serialized under strict privacy has the
\* attribute keys class, rr_width and rr_height, and the Mirror holds
\* under the record's id a copy of the image whose src is empty.
C8_StrictPrivacyImage ==
    \A i \in Exits :
        (DOM[trace[i].n].tagName = "IMG" /\ trace[i].strict /\ trace[i].sn # null) =>
            /\ DOMAIN trace[i].sn.attributes = BlockKeys
            /\ trace[i].registered.clone
            /\ trace[i].registered.node = trace[i].n
            /\ trace[i].registered.src = ""
            /\ mirrors[trace[i].mirror].idNodeMap[trace[i].sn.id] = trace[i].registered

\* The image of the document serialized under strict privacy.
C8_Witness ==
    /\ opts.enableStrictPrivacy
    /\ \E i \in Exits :
          /\ trace[i].n = "img" /\ trace[i].strict /\ trace[i].sn # null
          /\ trace[i].registered = [node |-> "img", clone |-> TRUE, src |-> ""]
          /\ Get(DOM["img"].attributes, "src") = "x.png"

\* C9: the record of a text node whose parent is a script element holds
\* the placeholder as its text.
C9_ScriptPlaceholder ==
    \A i \in Exits :
        (ScriptText(trace[i].n) /\ trace[i].sn # null) =>
            trace[i].sn.textContent = SCRIPT_PLACEHOLDER

\* The text of the HTML script serialized as the placeholder, the text of
\* the SVG script serialized as it is.
C9_Witness ==
    \E i, j \in Exits :
        /\ trace[i].n = "scriptText" /\ trace[i].sn # null
        /\ trace[i].sn.textContent = SCRIPT_PLACEHOLDER
        /\ trace[j].n = "svgScriptText" /\ ScriptText("svgScriptText")
        /\ trace[j].sn # null
        /\ trace[j].sn.textContent = DOM["svgScriptText"].textContent

\* C10: onIframeLoad is called in no call of snapshot or
\* serializeNodeWithId made by the recorder, and only while no call of
\* serializeNodeWithId is under way; such a call visits no node of
\* another document than its own, and gives an iframe's record no child.
C10_IframeLoadAfterReturn ==
    /\ \A k \in DOMAIN trace :
          trace[k].ev = "onIframeLoad" => (~SynchronousCall /\ trace[k].depth = 0)
    /\ SynchronousCall =>
          \A k \in DOMAIN trace :
              trace[k].ev = "enter" => ownerDocument(trace[k].n) = ownerDocument(trace[1].n)
    /\ \A i \in Exits :
          (DOM[trace[i].n].tagName = "IFRAME" /\ trace[i].sn # null) =>
              trace[i].sn.childNodes = <<>>

\* The timer of the slow iframe expires after the snapshot that visited
\* the iframe, and the iframe's document is delivered.
C10_Witness ==
    /\ opKind = "timer" /\ prevKind = "snapshot"
    /\ \E k \in DOMAIN trace :
          /\ trace[k].ev = "onIframeLoad" /\ trace[k].n = "frame"
          /\ Len(trace[k].ids) = 4

\* The exit i is the return of a record that the delivery k hands over:
\* a record of a node of the document of the iframe trace[k].n.
DeliveredBy(i, k) ==
    /\ i < k
    /\ trace[i].sn # null
    /\ trace[i].sn.id \in Range(trace[k].ids)
    /\ ownerDocument(trace[i].n) = DOM[trace[k].n].contentDocument

IframeDeliveries == {k \in DOMAIN trace : trace[k].ev = "onIframeLoad"}

\* C11 as claimed: every record of the tree that onIframeLoad delivers for
\* an iframe carries as rootId the id the Mirror holds for the iframe
\* element.
C11_RootIdIsIframeId ==
    \A k \in IframeDeliveries : \A i \in Exits :
        DeliveredBy(i, k) =>
            trace[i].sn.rootId = getId(mirrors[trace[i].mirror], Live(trace[k].n))

\* C11 as amended: every record of the delivered tree other than the
\* Document's carries as rootId the id the Mirror holds for the iframe's
\* document, and no rootId where that id is 1; the Document's record
\* carries none when the Mirror did not hold the document before.
C11_RootIdIsDocumentId ==
    \A k \in IframeDeliveries : \A i \in Exits :
        DeliveredBy(i, k) =>
            LET docId == getId(mirrors[trace[i].mirror],
                               Live(DOM[trace[k].n].contentDocument))
            IN  IF DOM[trace[i].n].nodeType = "DOCUMENT_NODE"
                THEN ~trace[i].had => trace[i].sn.rootId = NoRootId
                ELSE trace[i].sn.rootId = (IF docId = 1 THEN NoRootId ELSE docId)

\* The document of the slow iframe delivered: its text carries the id of
\* the document, which is not the id of the iframe.
C11_Witness ==
    \E k \in IframeDeliveries : \E i \in Exits :
        /\ trace[k].n = "frame" /\ trace[i].n = "itext" /\ DeliveredBy(i, k)
        /\ Len(trace[k].ids) = 4
        /\ trace[i].sn.rootId = getId(mirrors[trace[i].mirror], Live("idoc"))
        /\ trace[i].sn.rootId > 1
        /\ trace[i].sn.rootId # getId(mirrors[trace[i].mirror], Live("frame"))

\* C12: the listener of a registration made by onceIframeLoaded is called
\* at most once, whatever the order of the timer and the load events.
C12_IframeListenerAtMostOnce ==
    \A i \in DOMAIN regs : regs[i].kind = "iframe" => regs[i].calls <= 1

\* The timer of the slow iframe expired and called the listener, then the
\* load event arrived and its listener called it once more.
C12_Witness ==
    /\ opKind = "load" /\ prevKind = "timer"
    /\ \E i \in DOMAIN regs :
          /\ regs[i].kind = "iframe" /\ regs[i].n = "frame" /\ regs[i].guarded
          /\ regs[i].timer = "done" /\ regs[i].fired
          /\ regs[i].calls = 2

SheetRegistrations == {i \in DOMAIN regs : regs[i].kind = "sheet"}

\* C13: one call of serializeNodeWithId for a <link rel=stylesheet> makes
\* at most one registration (one timer and one load listener), and the
\* listener of a registration calls onStylesheetLoad at most once.
C13_StylesheetRegisteredOnce ==
    /\ \A i, j \in SheetRegistrations : regs[i].at = regs[j].at => i = j
    /\ \A i \in SheetRegistrations : regs[i].delivered <= 1

\* The link without href: one call registered two timers, both have
\* expired and each has called onStylesheetLoad.
C13_Witness ==
    \E i, j \in SheetRegistrations :
        /\ i # j /\ regs[i].at = regs[j].at
        /\ regs[i].n = "link0" /\ regs[j].n = "link0"
        /\ "href" \notin DOMAIN DOM["link0"].attributes
        /\ regs[i].timer = "done" /\ regs[j].timer = "done"
        /\ regs[i].delivered = 1 /\ regs[j].delivered = 1

\* n is an element with a resource that cannot be read: a tainted canvas,
\* an image that taints the canvas it is drawn to, a link whose sheet
\* keeps its rules to itself.
FailingRead(n) ==
    DOM[n].pixels = "tainted" \/ ~DOM[n].drawable \/ ~DOM[n].readable

\* C14: no call of snapshot or serializeNodeWithId ends by an exception,
\* and every call for an element with a resource that cannot be read
\* returns the element's record, without the data of the resource and
\* with the element's attributes (those of a block under strict privacy).
C14_NoExceptionPropagates ==
    /\ result # Exception
    /\ \A k \in DOMAIN trace :
          (trace[k].ev = "enter" /\ FailingRead(trace[k].n)) =>
              \E i \in Exits :
                  /\ i > k /\ trace[i].n = trace[k].n /\ trace[i].sn # null
                  /\ DOMAIN trace[i].sn.attributes \cap {"rr_dataURL", "_cssText"} = {}
                  /\ ~trace[i].strict =>
                        DOMAIN DOM[trace[k].n].attributes \subseteq
                            DOMAIN trace[i].sn.attributes

\* A snapshot that records canvases and inlines images: the image and the
\* link are returned without the data, the canvas that can be read with
\* it, and toDataURL of the tainted canvas ends the snapshot.
C14_Witness ==
    /\ opKind = "snapshot" /\ opts.recordCanvas /\ result = Exception
    /\ trace[Len(trace)] = [ev |-> "throw", n |-> "tcanvas"]
    /\ \E i, j, k \in Exits :
          /\ trace[i].n = "canvas" /\ trace[i].sn.attributes.rr_dataURL = "data:canvas"
          /\ trace[j].n = "img" /\ DOMAIN trace[j].sn.attributes = {"src", "alt"}
          /\ trace[k].n = "xlink" /\ DOMAIN trace[k].sn.attributes = {"rel", "href"}
    /\ \A i \in Exits : trace[i].n \notin {"tcanvas", "body", "html", "doc"}

\* Registration i was made for an iframe whose document was not complete:
\* a timer was set, and the load event may never arrive.
Fallback(i) ==
    IF i \in DOMAIN regs THEN regs[i].kind = "iframe" /\ regs[i].guarded ELSE FALSE

\* What the claim promises of such a registration.
FallbackDone(i) ==
    IF i \in DOMAIN regs
    THEN /\ regs[i].calls >= 1
         /\ (regs[i].options.onIframeLoad /\ DOM[regs[i].n].contentDocument # "none")
               => regs[i].delivered >= 1
    ELSE FALSE

FallbackCalled(i) == IF i \in DOMAIN regs THEN regs[i].calls >= 1 ELSE FALSE

\* C15: the listener of a registration made for an iframe whose document
\* was not complete is called in the end, load event or none, and
\* onIframeLoad, where supplied, is then called with the document's record.
C15_IframeFallbackLiveness ==
    \A i \in TimerIndices : Fallback(i) ~> FallbackDone(i)

\* The first half of C15, which holds: the listener is called in the end.
C15_ListenerCalledInTheEnd ==
    \A i \in TimerIndices : Fallback(i) ~> FallbackCalled(i)

\* The timers of both iframes have expired; the listener of the first
\* delivered the document, that of the second ended by the exception of
\* the tainted canvas and delivered nothing.
C15_Witness ==
    /\ opKind = "timer" /\ opts.recordCanvas /\ opts.onIframeLoad
    /\ trace[Len(trace)] = [ev |-> "throw", n |-> "ccanvas"]
    /\ \E i, j \in DOMAIN regs :
          /\ regs[i].n = "frame" /\ Fallback(i) /\ regs[i].timer = "done"
          /\ regs[i].calls = 1 /\ regs[i].delivered = 1
          /\ regs[j].n = "cframe" /\ Fallback(j) /\ regs[j].timer = "done"
          /\ regs[j].calls = 1 /\ regs[j].delivered = 0

\* n is a <link rel=stylesheet> of the documents.
StylesheetLink(n) ==
    /\ DOM[n].tagName = "LINK"
    /\ Get(DOM[n].attributes, "rel") = "stylesheet"

\* The sheet of n is still to come: n has an href and link.sheet is null.
\* (A task reads sheetLoaded as the task leaves it.)
SheetPending(n) == "href" \in DOMAIN DOM[n].attributes /\ ~sheetLoaded[n]

\* The record of n holds the attributes of a blocked element, rel not
\* among them.
BlockTreated(n) ==
    \/ _isBlockedElement(n, opts.blockClass, opts.blockSelector)
    \/ _isBlockedElement(n, opts.maskTextClass, "none")

\* The call that returned at i gave the id of its node to no record of the
\* node's parent in the same walk.
AbsentFromParent(i) ==
    \A j \in Exits :
        (/\ trace[j].walk = trace[i].walk /\ trace[j].n = DOM[trace[i].n].parentNode
         /\ trace[j].sn # null)
            => trace[i].id \notin Range(trace[j].sn.childNodes)

PresentInParent(i) ==
    \A j \in Exits :
        (/\ trace[j].walk = trace[i].walk /\ trace[j].n = DOM[trace[i].n].parentNode
         /\ j > i /\ trace[j].sn # null)
            => trace[i].id \in Range(trace[j].sn.childNodes)

\* C16 as claimed: a call for a <link rel=stylesheet> with an href whose
\* sheet is still to come returns null and the parent's record does not
\* hold the link; a call for any other <link rel=stylesheet> returns the
\* link's record.
C16_PendingStylesheetSuppressed ==
    \A i \in Exits :
        StylesheetLink(trace[i].n) =>
            IF SheetPending(trace[i].n)
            THEN trace[i].sn = null /\ AbsentFromParent(i)
            ELSE trace[i].sn # null /\ PresentInParent(i)

\* C16 as amended: the same, of a link that is neither blocked nor
\* masked; a blocked or masked link is returned, its sheet loaded or not.
C16_PendingStylesheetSuppressedUnlessBlocked ==
    \A i \in Exits :
        StylesheetLink(trace[i].n) =>
            IF SheetPending(trace[i].n) /\ ~BlockTreated(trace[i].n)
            THEN trace[i].sn = null /\ AbsentFromParent(i)
            ELSE trace[i].sn # null /\ PresentInParent(i)

\* A snapshot of the page of links: the loading link is left out of the
\* record of <head>, the link without href and the loading link with the
\* block class are in it.
C16_Witness ==
    /\ opKind = "snapshot" /\ result # null
    /\ \E i, j, k, h \in Exits :
          /\ trace[i].n = "link" /\ SheetPending("link")
          /\ trace[i].sn = null /\ trace[i].why = "stylesheet not loaded"
          /\ trace[j].n = "link0" /\ trace[j].sn # null
          /\ trace[k].n = "blink" /\ SheetPending("blink") /\ trace[k].sn # null
          /\ DOMAIN trace[k].sn.attributes = BlockKeys
          /\ trace[h].n = "head" /\ trace[h].sn # null
          /\ trace[i].id \notin Range(trace[h].sn.childNodes)
          /\ trace[j].id \in Range(trace[h].sn.childNodes)
          /\ trace[k].id \in Range(trace[h].sn.childNodes)

\* C17: whatever snapshots and cleanups came before, a record of a node of
\* a top-level document (one that no iframe holds) carries no rootId; a
\* record that carries one is of a node of an iframe's document and the
\* rootId is the id the Mirror holds for that document.
C17_RootIdOnlyBelowIframes ==
    \A i \in Exits :
        trace[i].sn # null =>
            LET d == ownerDocument(trace[i].n)
            IN  /\ frameElement(d) = "none" => trace[i].sn.rootId = NoRootId
                /\ trace[i].sn.rootId # NoRootId =>
                      /\ frameElement(d) # "none"
                      /\ trace[i].sn.rootId = getId(mirrors[trace[i].mirror], Live(d))

\* A snapshot with a new Mirror after another snapshot and no cleanup: the
\* document takes an id other than 1 and the record of <html> carries it
\* as rootId.
C17_Witness ==
    /\ opKind = "snapshot" /\ prevKind # "cleanup" /\ result # null
    /\ \E i, j \in Exits :
          /\ trace[i].n = "doc" /\ trace[i].depth = 0 /\ ~trace[i].had
          /\ trace[i].id > 1 /\ trace[i].sn # null
          /\ trace[j].n = "html" /\ trace[j].walk = trace[i].walk
          /\ trace[j].sn # null /\ trace[j].sn.rootId = trace[i].id

\* n cannot be probed: an iframe with no contentWindow or whose document
\* may not be read, a link whose sheet may not be read.
Unprobed(n) ==
    \/ DOM[n].tagName = "IFRAME" /\ DOM[n].frame # "same"
    \/ DOM[n].tagName = "LINK" /\ DOM[n].sheetThrows

\* C18: of a node that cannot be probed no call of serializeNodeWithId
\* ends by an exception, no timer and no listener is registered, neither
\* onIframeLoad nor onStylesheetLoad is called, and the call returns the
\* record of the element.
C18_UnprobedNodeIsRecorded ==
    \A n \in {x \in Nodes : Unprobed(x)} :
        /\ \A i \in DOMAIN trace :
              trace[i].ev \in {"throw", "onIframeLoad", "onStylesheetLoad"} => trace[i].n # n
        /\ \A i \in DOMAIN regs : regs[i].n # n
        /\ \A i \in Exits : trace[i].n = n => trace[i].sn # null

\* The two iframes that cannot be probed are recorded and nothing is
\* registered for them; the call for the link whose sheet throws ends by
\* the exception, and the snapshot with it.
C18_Witness ==
    /\ opKind = "snapshot" /\ result = Exception
    /\ \A i \in DOMAIN regs : regs[i].n \notin {"oframe", "wframe", "tlink"}
    /\ \E i, j, k \in DOMAIN trace :
          /\ i < j /\ j < k
          /\ trace[i].ev = "exit" /\ trace[i].n = "oframe" /\ trace[i].sn # null
          /\ trace[j].ev = "exit" /\ trace[j].n = "wframe" /\ trace[j].sn # null
          /\ trace[k].ev = "throw" /\ trace[k].n = "tlink"

\* The directory of the sheet: href up to its last "/".
RECURSIVE DirOf(_)
DirOf(href) ==
    IF href = <<>> \/ href[Len(href)] = "/" THEN href
    ELSE DirOf(SubSeq(href, 1, Len(href) - 1))

\* scheme://host of the sheets
OriginOfSheets == <<"h", "t", "t", "p", ":", "/", "/", "h">>

\* What a piece is to become: a reference to a file the same reference,
\* in its own quoting, to the file's place beside the sheet or under the
\* origin of the sheet; any other piece itself.
Absolute(piece, href) ==
    IF piece.ref /\ piece.path = RelativeFile
    THEN Url(piece.quote, DirOf(href) \o piece.path)
    ELSE IF piece.ref /\ piece.path = RootedFile
    THEN Url(piece.quote, OriginOfSheets \o piece.path)
    ELSE PieceText(piece)

RECURSIVE AbsoluteText(_, _)
AbsoluteText(pieces, href) ==
    IF pieces = <<>> THEN <<>>
    ELSE Absolute(Head(pieces), href) \o AbsoluteText(Tail(pieces), href)

\* C19: absoluteToStylesheet rewrites a relative reference to the same
\* absolute form in each of the quotings url(a), url('a') and url("a"),
\* the quoting kept, and copies a url(data:...) reference, and all that
\* is no reference, character for character.
C19_ReferencesRewrittenAlike ==
    css.done => css.out = AbsoluteText(css.pieces, css.href)

\* A text with the three quotings of a relative reference and a data URI
\* was rewritten: the references differ from what they were, the data
\* URI does not.
C19_Witness ==
    /\ css.done
    /\ Len(css.pieces) = 4
    /\ {css.pieces[i].quote : i \in 1..3} = Quotes
    /\ \A i \in 1..3 : css.pieces[i].ref /\ css.pieces[i].path = RelativeFile
    /\ css.pieces[4].ref /\ css.pieces[4].path = DataUri
    /\ css.out # CssTextOf(css.pieces)
    /\ SubSeq(css.out, Len(css.out) - Len(PieceText(css.pieces[4])) + 1, Len(css.out))
          = PieceText(css.pieces[4])

Callbacks == {i \in DOMAIN trace : trace[i].ev = "onSerialize"}

\* The calls made for a child by the call for its parent.
ChildCalls == {i \in DOMAIN trace : trace[i].ev = "enter" /\ trace[i].depth > 0}

\* mirror.add for node n came before index i in the walk w.
AddedBefore(n, w, i) ==
    \E j \in 1..(i - 1) :
        trace[j].ev = "add" /\ trace[j].n = n /\ trace[j].walk = w

\* C20: in a call of serializeNodeWithId the node is added to the Mirror
\* before onSerialize is called for it, the Mirror holding the node when
\* the callback runs, and before a call is made for any of its children;
\* onSerialize for a node comes before onSerialize for what is below it.
C20_AddBeforeCallbackAndChildren ==
    /\ \A i \in Callbacks :
          trace[i].has /\ AddedBefore(trace[i].n, trace[i].walk, i)
    /\ \A i \in ChildCalls :
          AddedBefore(DOM[trace[i].n].parentNode, trace[i].walk, i)
    /\ \A i, j \in Callbacks :
          (trace[i].walk = trace[j].walk /\ trace[i].n \in Above(trace[j].n)) => i < j

\* A snapshot with a Mirror that held nothing: <html> was added, then
\* onSerialize ran for it, then the call for <head> was made and
\* onSerialize ran for <head>.
C20_Witness ==
    /\ opKind = "snapshot" /\ opts.onSerialize
    /\ \E a, c, e, d \in DOMAIN trace :
          /\ a < c /\ c < e /\ e < d
          /\ trace[a].ev = "add" /\ trace[a].n = "html"
          /\ trace[c].ev = "onSerialize" /\ trace[c].n = "html" /\ trace[c].has
          /\ trace[e].ev = "enter" /\ trace[e].n = "head" /\ trace[e].depth > 0
          /\ trace[d].ev = "onSerialize" /\ trace[d].n = "head"
          /\ \E x \in Exits : trace[x].n = "html" /\ x > d /\ ~trace[x].had

\* The calls that gave their node a record: the exits of the calls that
\* added the node to the Mirror.
RecordedCalls ==
    {i \in Exits : AddedBefore(trace[i].n, trace[i].walk, i)}

\* needBlock of the record the call that returned at i made of its element.
NeedBlockAt(i) ==
    /\ DOM[trace[i].n].nodeType = "ELEMENT_NODE"
    /\ NeedBlockAfter([enableStrictPrivacy |-> trace[i].strict],
                      getValidTagName(trace[i].n),
                      _isBlockedElement(trace[i].n, opts.blockClass, opts.blockSelector),
                      _isBlockedElement(trace[i].n, opts.maskTextClass, "none"))

\* The children, shadow children too, the call that returned at i made a
\* call for.
ChildrenCalled(i) ==
    {trace[k].n : k \in {x \in ChildCalls :
                            /\ x < i /\ trace[x].walk = trace[i].walk
                            /\ trace[x].n \in ChildrenOf(trace[i].n)}}

\* C21: a call that made a record of its node makes a call for every child
\* of the node when the record is a Document or an Element, skipChild is
\* false and needBlock of the record is false, and for no child otherwise;
\* a record of any other kind holds no children.
C21_RecursionCondition ==
    /\ \A i \in RecordedCalls :
          IF /\ DOM[trace[i].n].nodeType \in {"DOCUMENT_NODE", "ELEMENT_NODE"}
             /\ ~trace[i].skipChild
             /\ ~NeedBlockAt(i)
          THEN ChildrenCalled(i) = ChildrenOf(trace[i].n)
          ELSE ChildrenCalled(i) = {}
    /\ \A i \in Exits :
          (trace[i].sn # null /\ trace[i].sn.type \notin {"Document", "Element"})
              => "childNodes" \notin DOMAIN trace[i].sn

\* A snapshot under strict privacy: calls were made for the children of
\* <body>, none for the text of the blocked element and none for the text
\* of the masked one, and the record of the comment holds no children.
C21_Witness ==
    /\ opKind = "snapshot" /\ opts.enableStrictPrivacy
    /\ \E b, k, m, t \in RecordedCalls :
          /\ trace[b].n = "body" /\ ChildrenCalled(b) = ChildrenOf("body")
          /\ trace[k].n = "blk" /\ ChildrenCalled(k) = {} /\ NeedBlockAt(k)
          /\ trace[m].n = "msk" /\ ChildrenCalled(m) = {} /\ NeedBlockAt(m)
          /\ trace[t].n = "cmt" /\ "childNodes" \notin DOMAIN trace[t].sn

\* n is an element that the mask rule of the recorder's options matches.
Masked(n) ==
    /\ DOM[n].nodeType = "ELEMENT_NODE"
    /\ _isBlockedElement(n, opts.maskTextClass, "none")

\* The call that returned at j is, in the same walk, a call for a node
\* above the node of the call that returned at i.
CallAbove(j, i) ==
    /\ trace[j].walk = trace[i].walk
    /\ trace[j].n \in Above(trace[i].n)

\* C22: in a walk, the call for a node runs with enableStrictPrivacy true
\* whenever the call for a node above it did, or an element above it is
\* blocked or masked.
C22_StrictPrivacyMonotone ==
    \A i, j \in Exits :
        (/\ CallAbove(j, i)
         /\ trace[j].strict \/ Blocked(trace[j].n) \/ Masked(trace[j].n))
            => trace[i].strict

\* A snapshot that started without strict privacy: the call for the masked
\* element ran without it, the call for the text below it with it.
C22_Witness ==
    /\ opKind = "snapshot" /\ ~opts.enableStrictPrivacy
    /\ \E i, j \in Exits :
          /\ trace[j].n = "msk" /\ Masked("msk") /\ ~trace[j].strict
          /\ trace[i].n = "mskText" /\ CallAbove(j, i) /\ trace[i].strict

\* The registrations made in the not-yet-loaded branches: a timer, and a
\* load listener that clears it.
GuardedRegistrations == {i \in DOMAIN regs : regs[i].guarded}

\* C23: of a registration made while the iframe or the sheet was loading,
\* a timer that the load event cleared has not called the listener, the
\* load event having called it, and a timer that expired first has made
\* the only call of the listener.
C23_FirstTriggerOnly ==
    \A i \in GuardedRegistrations :
        /\ regs[i].timer = "cleared" => regs[i].calls >= 1
        /\ regs[i].timer = "done" => regs[i].calls <= 1

\* The timer set for the loading stylesheet expired and called the
\* listener, then the sheet's load event called it once more.
C23_Witness ==
    /\ opKind = "load" /\ prevKind = "timer"
    /\ \E i \in GuardedRegistrations :
          /\ regs[i].kind = "sheet" /\ regs[i].n = "link"
          /\ regs[i].timer = "done" /\ regs[i].calls = 2

KnownNodeTypes ==
    {"DOCUMENT_NODE", "DOCUMENT_TYPE_NODE", "ELEMENT_NODE", "TEXT_NODE",
     "CDATA_SECTION_NODE", "COMMENT_NODE"}

\* The ids of the records that the calls of walk w returned for
\* kids[k..], in the order of kids.
RECURSIVE ReturnedIds(_, _, _)
ReturnedIds(kids, w, k) ==
    IF k > Len(kids) THEN <<>>
    ELSE (IF \E i \in Exits :
                trace[i].n = kids[k] /\ trace[i].walk = w /\ trace[i].sn # null
          THEN <<trace[CHOOSE i \in Exits :
                        trace[i].n = kids[k] /\ trace[i].walk = w].sn.id>>
          ELSE <<>>)
         \o ReturnedIds(kids, w, k + 1)

\* C24: a call for a node of unknown kind returns null, takes no id and
\* leaves the Mirror without the node; and the childNodes of every record
\* are the records returned for the node's children, in the order of the
\* children, followed by those returned for its shadow children.
C24_UnknownKindDropped ==
    /\ \A i \in Exits :
          DOM[trace[i].n].nodeType \notin KnownNodeTypes =>
              /\ trace[i].sn = null /\ ~trace[i].alloc
              /\ ~hasNode(mirrors[trace[i].mirror], Live(trace[i].n))
    /\ \A i \in Exits :
          (trace[i].sn # null /\ "childNodes" \in DOMAIN trace[i].sn) =>
              trace[i].sn.childNodes
                  = ReturnedIds(DOM[trace[i].n].childNodes \o DOM[trace[i].n].shadowChildNodes,
                                trace[i].walk, 1)

\* A snapshot: the processing instruction in <body> was dropped, and the
\* record of <body> holds the comment before it and the element after it
\* next to each other.
C24_Witness ==
    /\ opKind = "snapshot" /\ result # null /\ result # Exception
    /\ \E p, b, c, k \in Exits :
          /\ trace[p].n = "pi" /\ trace[p].sn = null /\ trace[p].why = "not serialized"
          /\ ~hasNode(mirrors[trace[p].mirror], Live("pi"))
          /\ trace[b].n = "body" /\ trace[b].sn # null
          /\ trace[c].n = "cmt" /\ trace[c].sn # null
          /\ trace[k].n = "blk" /\ trace[k].sn # null
          /\ \E x \in 1..(Len(trace[b].sn.childNodes) - 1) :
                /\ trace[b].sn.childNodes[x] = trace[c].sn.id
                /\ trace[b].sn.childNodes[x + 1] = trace[k].sn.id

\* The mask class or the mask selector of the recorder's options matches
\* the parent element of the text n or an element above it.
MaskAbove(n) ==
    \E a \in InclusiveAncestors(parentElement(n)) :
        \/ DOM[a].classList \cap opts.maskTextClass.matches # {}
        \/ opts.maskTextSelector # "none" /\ a \in Matches(opts.maskTextSelector)

\* The records of the texts the claim is about: the recorder supplied no
\* maskTextFn, the text's parent is neither <style> nor <script>, and the
\* mask class or the mask selector matches the parent element or an
\* element above it.
MaskedTextRecords ==
    {i \in Exits :
        /\ trace[i].sn # null
        /\ DOM[trace[i].n].nodeType = "TEXT_NODE"
        /\ opts.maskTextFn = "none"
        /\ parentTagNameOf(trace[i].n) \notin {"STYLE", "SCRIPT", "style", "script"}
        /\ MaskAbove(trace[i].n)}

\* text with '*' for every character that is no whitespace
Starred(text) ==
    [x \in DOMAIN text |-> IF text[x] \in Whitespace THEN text[x] ELSE "*"]

\* The call that returned at i went on to obfuscate its text.
ObfuscatedAt(i) ==
    /\ trace[i].strict
    /\ parentTagNameOf(trace[i].n) # undefined
    /\ parentTagNameOf(trace[i].n) \notin IGNORE_TAG_NAMES

\* C25 as claimed: the record of every such text holds the text with '*'
\* for every character that is no whitespace, of the same length and
\* with the whitespace where it was.
C25_MaskedTextStarred ==
    \A i \in MaskedTextRecords :
        trace[i].sn.textContent = Starred(DOM[trace[i].n].textContent)

\* C25 as amended: so it is for a text whose parent is not <noscript> and
\* whose call ran without strict privacy or with a parent among <head>,
\* <title>, <html>, <body>; under strict privacy, which the walk turns on
\* below an element of the mask class, the record holds what
\* obfuscateText makes of the starred text, of the same length; the
\* record of a text in <noscript> is empty.
C25_MaskedTextStarredOrObfuscated ==
    \A i \in MaskedTextRecords :
        /\ trace[i].sn.textContent =
              IF parentTagNameOf(trace[i].n) = "NOSCRIPT" THEN <<>>
              ELSE IF ObfuscatedAt(i)
              THEN obfuscateText(Starred(DOM[trace[i].n].textContent))
              ELSE Starred(DOM[trace[i].n].textContent)
        /\ parentTagNameOf(trace[i].n) # "NOSCRIPT" =>
              Len(trace[i].sn.textContent) = Len(DOM[trace[i].n].textContent)

\* A snapshot without strict privacy and without maskTextFn: the texts
\* below the element the selector matches are starred, the one two levels
\* below too, and the text below the element of the mask class, whose
\* call ran under strict privacy, is obfuscated.
C25_Witness ==
    /\ opKind = "snapshot" /\ ~opts.enableStrictPrivacy /\ opts.maskTextFn = "none"
    /\ \E a, b, c \in MaskedTextRecords :
          /\ trace[a].n = "selText" /\ trace[a].sn.textContent = <<"*", " ", "*">>
          /\ trace[b].n = "selInText" /\ trace[b].sn.textContent = <<"*", "*", "\n">>
          /\ trace[c].n = "mskText" /\ trace[c].strict
          /\ trace[c].sn.textContent # <<"*", " ", "*">>
          /\ Len(trace[c].sn.textContent) = 3

\* Registration j was made by the task that just ran, a timer's, for a
\* link whose earlier registration i has had its timeout.
RescheduledBy(i, j) ==
    /\ i < j
    /\ regs[i].n = regs[j].n
    /\ regs[i].timer = "done"
    /\ opKind = "timer" /\ regs[j].at[1] = nTasks

\* C26: for a link whose sheet has not become available, the task of the
\* timeout registers no further timer and no further load listener for
\* the link.
C26_StylesheetFallbackOneShot ==
    \A i, j \in SheetRegistrations :
        ~sheetLoaded[regs[i].n] => ~RescheduledBy(i, j)

\* The timeout of the loading link ran the listener, whose call for the
\* link set a new timer and added a second load listener.
C26_Witness ==
    \E i, j \in SheetRegistrations :
        /\ regs[i].n = "link" /\ ~sheetLoaded["link"]
        /\ RescheduledBy(i, j)
        /\ regs[i].calls = 1 /\ regs[j].timer = "pending" /\ regs[j].guarded
        /\ Cardinality({k \in SheetRegistrations : regs[k].n = "link"}) = 2

\* The calls that returned null for a link whose sheet was not loaded.
SuppressedLinks == {i \in Exits : trace[i].why = "stylesheet not loaded"}

StylesheetDeliveries == {k \in DOMAIN trace : trace[k].ev = "onStylesheetLoad"}

\* C27: a call that returns null for a link whose sheet is not loaded has
\* given the link an id, added it to the Mirror under that id and called
\* onSerialize for it; the Mirror holds the link of every registration
\* from then on; and the record that onStylesheetLoad is called with
\* carries the id the Mirror held before the listener's call, which took
\* no new id.
C27_SuppressedLinkKeepsId ==
    /\ \A i \in SuppressedLinks :
          /\ trace[i].sn = null /\ trace[i].id >= 1
          /\ getId(mirrors[trace[i].mirror], Live(trace[i].n)) = trace[i].id
          /\ AddedBefore(trace[i].n, trace[i].walk, i)
          /\ opts.onSerialize =>
                \E c \in Callbacks :
                    c < i /\ trace[c].n = trace[i].n /\ trace[c].walk = trace[i].walk
    /\ \A r \in SheetRegistrations :
          hasNode(mirrors[regs[r].options.mirror], Live(regs[r].n))
    /\ \A k \in StylesheetDeliveries :
          /\ trace[k - 1].ev = "exit" /\ trace[k - 1].n = trace[k].n
          /\ trace[k - 1].had /\ ~trace[k - 1].alloc
          /\ trace[k].node.id = trace[k - 1].prevId
          /\ getId(mirrors[trace[k - 1].mirror], Live(trace[k].n)) = trace[k].node.id

\* The sheet of the link that a snapshot had left out has loaded: the
\* listener's call returned the link under the id the Mirror held, and
\* onStylesheetLoad was called with that record.
C27_Witness ==
    /\ opKind = "load" /\ sheetLoaded["link"]
    /\ \E k \in StylesheetDeliveries :
          /\ trace[k].n = "link"
          /\ trace[k - 1].ev = "exit" /\ trace[k - 1].had /\ ~trace[k - 1].alloc
          /\ trace[k].node.id = trace[k - 1].prevId /\ trace[k].node.id >= 1

\* Whether the record of the call i is one that the options of the call
\* leave out of a first serialization.
ExcludedNow(i) ==
    \/ slimDOMExcluded(trace[i].sn, slimDOMOptionsOf(opts.slimDOM))
    \/ /\ ~opts.preserveWhiteSpace
       /\ trace[i].sn.type = "Text"
       /\ ~trace[i].sn.isStyle
       /\ OnlyWhitespace(trace[i].sn.textContent)

\* C28: a call for a node that the Mirror already holds never gives it the
\* ignored id: it is not returned as ignored, its record is returned under
\* the id the Mirror held, whatever slimDOM and the whitespace rule say
\* of it now.
C28_KnownNodeNeverIgnored ==
    SynchronousCall =>
        \A i \in Exits :
            trace[i].had =>
                /\ trace[i].id # IGNORED_NODE /\ trace[i].why # "ignored"
                /\ trace[i].id = trace[i].prevId
                /\ trace[i].sn # null /\ trace[i].sn.id = trace[i].prevId

\* A text whose data became whitespace and a script, both known to the
\* Mirror, serialized again with slimDOM on and preserveWhiteSpace off.
C28_Witness ==
    /\ SynchronousCall
    /\ opts.slimDOM = "all" /\ ~opts.preserveWhiteSpace
    /\ \E i, j \in Exits :
          /\ trace[i].n = "txt" /\ trace[i].had /\ trace[i].sn # null
          /\ OnlyWhitespace(trace[i].sn.textContent) /\ ExcludedNow(i)
          /\ trace[i].sn.id = trace[i].prevId
          /\ trace[j].n = "scr" /\ trace[j].had /\ trace[j].sn # null
          /\ ExcludedNow(j) /\ trace[j].sn.id = trace[j].prevId

\* The live nodes that the Mirror m holds.
LiveNodesOf(m) == {ref \in DOMAIN mirrors[m].nodeMetaMap : ~ref.clone}

\* Two live nodes that the Mirror m holds under one id.
Collide(m, a, b) ==
    /\ a # b
    /\ getId(mirrors[m], a) = getId(mirrors[m], b)

\* C29: in every Mirror, whatever snapshots, serializeNodeWithId calls and
\* cleanupSnapshot calls it has been through, no two live nodes hold the
\* same id.
C29_SharedMirrorInjective ==
    \A m \in DOMAIN mirrors :
        \A a, b \in LiveNodesOf(m) : ~Collide(m, a, b)

\* A Mirror made before a cleanupSnapshot and used by a snapshot after it:
\* the document of the second snapshot has taken the id 1, which the
\* document of the first still holds.
C29_Witness ==
    /\ opKind = "snapshot" /\ prevKind = "cleanup"
    /\ \E m \in DOMAIN mirrors :
          /\ mirrors[m].epoch < epoch
          /\ Collide(m, Live("doc"), Live("doc2"))
          /\ getId(mirrors[m], Live("doc")) = 1
          /\ \E i \in Allocations : trace[i].id = 1 /\ trace[i].mirror = m

\* The number of '..' segments of a path.
Climbs(path) == Cardinality({i \in DOMAIN Split(path, "/") : Split(path, "/")[i] = <<".", ".">>})

\* C30: absoluteToStylesheet applied to its own result, with the same
\* href, gives that result again; and the reference it rewrote begins
\* with the origin of href.
C30_AbsoluteToStylesheetIdempotent ==
    /\ css.twice => css.again = css.out
    /\ css.done =>
          StartsWith(css.out,
                     <<"u", "r", "l", "(">> \o css.pieces[1].quote \o extractOrigin(css.href))

\* url(../../../../a.png) in the sheet http://h/d/s.css: the first
\* application made url(a.png) of it, the second url(http://h/d/a.png).
C30_Witness ==
    /\ css.twice
    /\ css.href \in Hrefs
    /\ css.pieces[1].quote = <<>>
    /\ Climbs(css.pieces[1].path) = 4 /\ Len(Split(css.pieces[1].path, "/")) = 5
    /\ css.out = Url(<<>>, RelativeFile)
    /\ css.again = Url(<<>>, DirOf(css.href) \o RelativeFile)
    /\ css.again # css.out

====
